---- MODULE Spec2Model ----
(***************************************************************************)
(* Model of src/Data_Structures.py and src/Algorithms.py: the array heap   *)
(* PriorityQueue, the BinomialHeap, the FibonacciHeap, the Graph, the      *)
(* RedBlackTree and the two shortest-path functions, driven by a client    *)
(* that constructs one object and calls its methods.  Every call is one    *)
(* action; the outcome of the call (the value returned or the exception    *)
(* raised) is recorded in ret.                                             *)
(*                                                                         *)
(* Spec      one heap of any of the three classes, all methods             *)
(* SpecMerge two FibonacciHeaps and h = self + other                       *)
(* SpecOwn   SpecMerge with calls on the operands as well as on h          *)
(* SpecLoad  a FibonacciHeap loaded with up to MaxLoad entries and drained *)
(* SpecDeep  a FibonacciHeap loaded in ascending key order, up to MaxDeep  *)
(* SpecBin   a BinomialHeap that starts out holding entries                *)
(* SpecGraph one Graph, its vertex and edge methods                        *)
(* SpecRing  two rings of FibonacciHeapNodes and a + b                     *)
(* SpecAlgorithms  one call of Dijkstra_Algorithm or                       *)
(*           FloydWarshall_Algorithm on an adjacency matrix                *)
(* SpecRBInsert  a RedBlackTree built by inserts                           *)
(* SpecRBT   a RedBlackTree built by inserts, then searched and deleted    *)
(*           from                                                          *)
(***************************************************************************)
EXTENDS Integers, Sequences, FiniteSets, TLC

\* ---------------------------------------------------------------- bounds
\* Finite keys offered to the heaps are 1..MaxKey, plus float("inf").
MaxKey == 2
\* A FibonacciHeap run allocates at most MaxNodes nodes.
MaxNodes == 3
\* The hashable values a client passes.  The heaps only hash and compare
\* values for equality, so a client that needs a value it has not used yet
\* takes the first unused one of ValueOrder.
ValueOrder == <<"a", "b", "c", "d">>
Values == {ValueOrder[i] : i \in 1..Len(ValueOrder)}
Offered(used) ==
    used \cup {ValueOrder[i] : i \in {j \in 1..Len(ValueOrder) :
                   /\ ValueOrder[j] \notin used
                   /\ \A h \in 1..(j - 1) : ValueOrder[h] \in used}}

\* float("inf"): larger than every finite key of the model.
Inf == 1000
Keys == (1..MaxKey) \cup {Inf}

\* Python's None, as a value and as a node reference.
None == "None"
Nil == 0

VARIABLES
    impl,               \* the class the client constructed
    _container,         \* PriorityQueue._container: sequence of [key, value]
    _value_to_index,    \* PriorityQueue._value_to_index: dict
    fib_node,           \* the FibonacciHeapNode objects created so far
    fib_min,            \* FibonacciHeap._min
    fib_len,            \* FibonacciHeap._len
    fib_value_pointer,  \* FibonacciHeap._value_pointer: dict value -> node
    fib_held,           \* the other FibonacciHeap objects the client holds
    bin_node,           \* the BinomialTreeNode objects created so far
    bin_head,           \* BinomialHeap._head
    bin_len,            \* BinomialHeap._len
    bin_value_pointer,  \* BinomialHeap._value_pointer: dict value -> node
    ret,                \* the last call: its arguments and its outcome
    n_ins,              \* number of inserts that returned normally
    n_ext,              \* number of extractions that returned normally
    live,               \* values inserted and not yet returned by an extraction
    vertices,           \* Graph.vertices: set
    outbound_edges,     \* Graph.outbound_edges: dict source -> dict destination -> value
    inbound_edges,      \* Graph.inbound_edges: dict destination -> set of sources
    sp_graph,           \* the graph argument of a shortest-path function
    sp_source,          \* the source argument of Dijkstra_Algorithm
    sp_distance,        \* the distances a shortest-path function returned
    sp_path,            \* the paths a shortest-path function returned
    rbt_node,           \* the RedBlackTree_Node objects created so far
    rbt_root,           \* RedBlackTree.root
    rbt_keys            \* keys inserted and not deleted since

pq_vars == <<_container, _value_to_index>>
fib_vars == <<fib_node, fib_min, fib_len, fib_value_pointer>>
bin_vars == <<bin_node, bin_head, bin_len, bin_value_pointer>>
heap_vars == <<pq_vars, bin_vars, fib_vars, fib_held>>
graph_vars == <<vertices, outbound_edges, inbound_edges>>
alg_vars == <<sp_graph, sp_source, sp_distance, sp_path>>
rbt_vars == <<rbt_node, rbt_root, rbt_keys>>
vars == <<impl, heap_vars, graph_vars, alg_vars, rbt_vars, ret, n_ins, n_ext, live>>

\* ------------------------------------------------------------- call record
\* raised = None when the call returned; result is the returned object.
\* rkey is the key the returned entry had when it was extracted.
Call(op, key, value, raised, result, rkey) ==
    [op |-> op, key |-> key, value |-> value, raised |-> raised,
     result |-> result, rkey |-> rkey]

Returned(op, key, value, result, rkey) == Call(op, key, value, None, result, rkey)
Raised(op, key, value, exc) == Call(op, key, value, exc, None, 0)

\* dict[k] = v
Put(d, k, v) == [x \in (DOMAIN d) \cup {k} |-> IF x = k THEN v ELSE d[x]]

\* ------------------------------------------------------------ PriorityQueue
\* A PriorityQueueNode object used as a dict key: hashed by identity, so it
\* is a key distinct from every value.
PriorityQueueNode(key, value) == [key |-> key, value |-> value]
NodeObject(node) == "<PriorityQueueNode " \o node.value \o ">"

\* The queue as the pair its methods update.
PQ(c, m) == [c |-> c, m |-> m]

_parent(index) == index \div 2
_left(index) == index * 2
_right(index) == index * 2 + 1

_update_value_to_index(pq, index) ==
    PQ(pq.c, Put(pq.m, pq.c[index].value, index))

SwapEntries(pq, i, j) ==
    PQ([pq.c EXCEPT ![i] = pq.c[j], ![j] = pq.c[i]], pq.m)

\* _heapify_up that swaps once and does not continue from the parent.
_heapify_up_once(pq, index) ==
    IF index = 1 THEN pq
    ELSE LET parent_index == _parent(index) IN
         IF pq.c[index].key < pq.c[parent_index].key
         THEN _update_value_to_index(
                _update_value_to_index(SwapEntries(pq, index, parent_index), index),
                parent_index)
         ELSE pq

RECURSIVE _heapify_up(_, _)
_heapify_up(pq, index) ==
    IF index = 1 THEN pq
    ELSE LET parent_index == _parent(index) IN
         IF pq.c[index].key < pq.c[parent_index].key
         THEN _heapify_up(
                _update_value_to_index(
                  _update_value_to_index(SwapEntries(pq, index, parent_index), index),
                  parent_index),
                parent_index)
         ELSE pq

\* _heapify_down that looks at the left child only.
RECURSIVE _heapify_down_left(_, _)
_heapify_down_left(pq, index) ==
    LET left == _left(index)
        smallest == IF left <= Len(pq.c) /\ pq.c[index].key > pq.c[left].key
                    THEN left ELSE index
    IN IF smallest # index
       THEN _heapify_down_left(
              _update_value_to_index(
                _update_value_to_index(SwapEntries(pq, index, smallest), index),
                smallest),
              smallest)
       ELSE pq

RECURSIVE _heapify_down(_, _)
_heapify_down(pq, index) ==
    LET left == _left(index)
        right == _right(index)
        s1 == IF left <= Len(pq.c) /\ pq.c[index].key > pq.c[left].key
              THEN left ELSE index
        smallest == IF right <= Len(pq.c) /\ pq.c[s1].key > pq.c[right].key
                    THEN right ELSE s1
    IN IF smallest # index
       THEN _heapify_down(
              _update_value_to_index(
                _update_value_to_index(SwapEntries(pq, index, smallest), index),
                smallest),
              smallest)
       ELSE pq

\* extract_minimum that forgets to shrink the list.
DropLast_keep(c) == c

\* self._container[:-1]
DropLast(c) == SubSeq(c, 1, Len(c) - 1)

pq_len == Len(_container)
pq_is_empty == pq_len = 0

PQInsert(key, value) ==
    /\ impl = "PriorityQueue"
    /\ IF value \in DOMAIN _value_to_index
       THEN /\ ret' = Raised("insert", key, value, "ValueError")
            /\ UNCHANGED <<pq_vars, n_ins>>
       ELSE LET c1 == Append(_container, PriorityQueueNode(key, value))
                index == Len(c1)
                pq == _heapify_up(PQ(c1, Put(_value_to_index, value, index)), index)
            IN /\ _container' = pq.c
               /\ _value_to_index' = pq.m
               /\ ret' = Returned("insert", key, value, None, 0)
               /\ n_ins' = n_ins + 1
    /\ live' = IF ret'.raised = None THEN live \cup {value} ELSE live
    /\ UNCHANGED <<impl, graph_vars, alg_vars, rbt_vars, fib_held, bin_vars, fib_vars, n_ext>>

PQExtractMinimum ==
    /\ impl = "PriorityQueue"
    /\ IF pq_is_empty
       THEN /\ ret' = Raised("extract_minimum", 0, None, "IndexError")
            /\ UNCHANGED <<pq_vars, n_ext>>
       ELSE LET min == _container[1]
                c1 == [_container EXCEPT ![1] = _container[Len(_container)]]
                m1 == Put(_value_to_index, NodeObject(c1[1]), 0)
                c2 == DropLast(c1)
                pq == _heapify_down(PQ(c2, m1), 1)
            IN /\ _container' = pq.c
               /\ _value_to_index' = pq.m
               /\ ret' = Returned("extract_minimum", 0, None, min.value, min.key)
               /\ n_ext' = n_ext + 1
    /\ live' = IF ret'.raised = None THEN live \ {ret'.result} ELSE live
    /\ UNCHANGED <<impl, graph_vars, alg_vars, rbt_vars, fib_held, bin_vars, fib_vars, n_ins>>

PQMinimum ==
    /\ impl = "PriorityQueue"
    /\ ret' = IF pq_is_empty
              THEN Raised("minimum", 0, None, "IndexError")
              ELSE Returned("minimum", 0, None, _container[1].value, 0)
    /\ UNCHANGED <<impl, graph_vars, alg_vars, rbt_vars, fib_held, pq_vars, bin_vars, fib_vars, n_ins, n_ext, live>>

PQDecreaseKey(value, new_key) ==
    /\ impl = "PriorityQueue"
    /\ IF value \notin DOMAIN _value_to_index
       THEN /\ ret' = Raised("decrease_key", new_key, value, "KeyError")
            /\ UNCHANGED pq_vars
       ELSE LET index == _value_to_index[value] IN
            IF index > Len(_container)
            THEN /\ ret' = Raised("decrease_key", new_key, value, "IndexError")
                 /\ UNCHANGED pq_vars
            ELSE IF _container[index].key < new_key
            THEN /\ ret' = Raised("decrease_key", new_key, value, "ValueError")
                 /\ UNCHANGED pq_vars
            ELSE LET c1 == [_container EXCEPT ![index].key = new_key]
                     pq == _heapify_up(PQ(c1, _value_to_index), index)
                 IN /\ _container' = pq.c
                    /\ _value_to_index' = pq.m
                    /\ ret' = Returned("decrease_key", new_key, value, None, 0)
    /\ UNCHANGED <<impl, graph_vars, alg_vars, rbt_vars, fib_held, bin_vars, fib_vars, n_ins, n_ext, live>>

\* The values the client has passed to insert so far.
PQUsed == (DOMAIN _value_to_index) \cap Values

NextPQ ==
    \/ \E k \in Keys, v \in Offered(PQUsed) : PQInsert(k, v)
    \/ PQExtractMinimum
    \/ PQMinimum
    \/ \E v \in Offered(PQUsed), k \in Keys : PQDecreaseKey(v, k)

\* ------------------------------------------------------------- BinomialHeap
BinomialTreeNode(key, value) ==
    [key |-> key, value |-> value, parent |-> Nil, degree |-> 0,
     child |-> Nil, sibling |-> Nil]

RECURSIVE Pow2(_)
Pow2(k) == IF k = 0 THEN 1 ELSE 2 * Pow2(k - 1)

\* BinomialHeap.__add__(self, other): `other is not BinomialHeap` compares an
\* instance with the class, so it holds for every operand and the method
\* raises before it reads either heap.
BinomialAdd(self, other) == [raised |-> "TypeError"]

\* The scan of extract_min: the first root with the strictly smallest key
\* below float("inf"), Nil when there is none.
RECURSIVE BinScanMin(_, _, _, _)
BinScanMin(nd, x, minimum, minimum_node) ==
    IF x = Nil THEN minimum_node
    ELSE IF nd[x].key < minimum
    THEN BinScanMin(nd, nd[x].sibling, nd[x].key, x)
    ELSE BinScanMin(nd, nd[x].sibling, minimum, minimum_node)

\* The loop of extract_min that turns the children of the removed root into
\* a root list: [nd, head, len] of new_heap.
RECURSIVE BinReverse(_, _, _, _)
BinReverse(nd, previous, current, len) ==
    LET n1 == [nd EXCEPT ![current].parent = Nil, ![current].sibling = previous]
        len1 == len + Pow2(nd[current].degree)
    IN IF nd[current].sibling = Nil
       THEN [nd |-> n1, head |-> current, len |-> len1]
       ELSE BinReverse(n1, current, nd[current].sibling, len1)

\* `key in self._value_pointer`: the dict is keyed by values and the operand
\* is the numeric key, which equals no value a client of the model passes.
BinKeyInValuePointer(key) == \E v \in DOMAIN bin_value_pointer : FALSE

BinInsert(key, value) ==
    /\ impl = "BinomialHeap"
    /\ IF BinKeyInValuePointer(key)
       THEN ret' = Raised("insert", key, value, "ValueError")
       ELSE \* heap = self + heap, with heap the new single-node heap
            ret' = Raised("insert", key, value,
                          BinomialAdd([head |-> bin_head, len |-> bin_len],
                                      [head |-> Len(bin_node) + 1, len |-> 1]).raised)
    /\ live' = IF ret'.raised = None THEN live \cup {value} ELSE live
    /\ UNCHANGED <<impl, graph_vars, alg_vars, rbt_vars, fib_held, pq_vars, bin_vars, fib_vars, n_ins, n_ext>>

BinMinimum ==
    /\ impl = "BinomialHeap"
    /\ ret' = IF bin_len = 0
              THEN \* IndexError(...) is built but not raised; return
                   Returned("minimum", 0, None, None, 0)
              ELSE IF bin_head # Nil
              THEN \* val.key with val = None
                   Raised("minimum", 0, None, "AttributeError")
              ELSE Returned("minimum", 0, None, None, 0)
    /\ UNCHANGED <<impl, graph_vars, alg_vars, rbt_vars, fib_held, pq_vars, bin_vars, fib_vars, n_ins, n_ext, live>>

\* extract_min on the heap (nd, head, len): the fields afterwards and the
\* exception raised, None when the call returns (it returns no value).
extract_min(nd, head, len) ==
    IF len = 0
    THEN [nd |-> nd, head |-> head, len |-> len, raised |-> "IndexError"]
    ELSE LET minimum_node == BinScanMin(nd, head, Inf, Nil) IN
         IF minimum_node # head
         THEN \* x is None after the scan: x.sibling
              [nd |-> nd, head |-> head, len |-> len, raised |-> "AttributeError"]
         ELSE IF minimum_node = Nil
         THEN \* _head is None: minimum_node.sibling
              [nd |-> nd, head |-> head, len |-> len, raised |-> "AttributeError"]
         ELSE LET len1 == len - Pow2(nd[minimum_node].degree) IN
              IF nd[minimum_node].child = Nil
              THEN \* return, with no value
                   [nd |-> nd, head |-> nd[minimum_node].sibling, len |-> len1,
                    raised |-> None]
              ELSE LET new_heap == BinReverse(nd, Nil, nd[minimum_node].child, 0)
                   IN [nd |-> new_heap.nd, head |-> nd[minimum_node].sibling,
                       len |-> len1,
                       raised |-> BinomialAdd(
                                    [head |-> nd[minimum_node].sibling, len |-> len1],
                                    new_heap).raised]

BinExtractMin ==
    /\ impl = "BinomialHeap"
    /\ LET r == extract_min(bin_node, bin_head, bin_len) IN
       /\ bin_node' = r.nd
       /\ bin_head' = r.head
       /\ bin_len' = r.len
       /\ ret' = IF r.raised = None
                 THEN Returned("extract_min", 0, None, None, 0)
                 ELSE Raised("extract_min", 0, None, r.raised)
       /\ n_ext' = IF r.raised = None THEN n_ext + 1 ELSE n_ext
    /\ live' = IF ret'.raised = None THEN live \ {ret'.result} ELSE live
    /\ UNCHANGED <<impl, graph_vars, alg_vars, rbt_vars, fib_held, pq_vars, fib_vars, n_ins, bin_value_pointer>>

\* float("-inf"): smaller than every key of the model.
NegInf == -1000

\* The while loop of decrease_key: [nd, vp] when it ends.
\* The loop of decrease_key without the two writes to _value_pointer.
RECURSIVE BinBubbleUp_stale(_, _, _, _)
BinBubbleUp_stale(nd, vp, node, parent) ==
    IF nd[node].parent # Nil /\ nd[node].key < nd[parent].key
    THEN LET n1 == [nd EXCEPT ![node].key = nd[parent].key,
                              ![parent].key = nd[node].key,
                              ![node].value = nd[parent].value,
                              ![parent].value = nd[node].value]
         IN BinBubbleUp_stale(n1, vp, parent, n1[parent].parent)
    ELSE [nd |-> nd, vp |-> vp]

RECURSIVE BinBubbleUp(_, _, _, _)
BinBubbleUp(nd, vp, node, parent) ==
    IF nd[node].parent # Nil /\ nd[node].key < nd[parent].key
    THEN LET n1 == [nd EXCEPT ![node].key = nd[parent].key,
                              ![parent].key = nd[node].key,
                              ![node].value = nd[parent].value,
                              ![parent].value = nd[node].value]
             vp1 == Put(Put(vp, n1[node].value, node), n1[parent].value, parent)
         IN BinBubbleUp(n1, vp1, parent, n1[parent].parent)
    ELSE [nd |-> nd, vp |-> vp]

\* decrease_key on the heap with nodes nd and value map vp.
decrease_key(nd, vp, value, new_key) ==
    IF value \notin DOMAIN vp
    THEN [nd |-> nd, vp |-> vp, raised |-> "ValueError"]
    ELSE IF new_key >= nd[vp[value]].key
    THEN [nd |-> nd, vp |-> vp, raised |-> "ValueError"]
    ELSE LET node == vp[value]
             up == BinBubbleUp([nd EXCEPT ![node].key = new_key], vp,
                               node, nd[node].parent)
         IN [nd |-> up.nd, vp |-> up.vp, raised |-> None]

BinDecreaseKey(value, new_key) ==
    /\ impl = "BinomialHeap"
    /\ LET r == decrease_key(bin_node, bin_value_pointer, value, new_key) IN
       /\ bin_node' = r.nd
       /\ bin_value_pointer' = r.vp
       /\ ret' = Call("decrease_key", new_key, value, r.raised, None, 0)
    /\ UNCHANGED <<impl, graph_vars, alg_vars, rbt_vars, fib_held, pq_vars, fib_vars, bin_head, bin_len,
                   n_ins, n_ext, live>>

\* delete: decrease_key(value, float("-inf")), then extract_min.
BinDelete(value) ==
    /\ impl = "BinomialHeap"
    /\ LET d == decrease_key(bin_node, bin_value_pointer, value, NegInf) IN
       IF d.raised # None
       THEN /\ ret' = Raised("delete", 0, value, d.raised)
            /\ UNCHANGED <<bin_vars, live>>
       ELSE LET r == extract_min(d.nd, bin_head, bin_len) IN
            /\ bin_node' = r.nd
            /\ bin_head' = r.head
            /\ bin_len' = r.len
            /\ bin_value_pointer' = d.vp
            /\ ret' = Call("delete", 0, value, r.raised, None, 0)
            /\ live' = IF r.raised = None THEN live \ {value} ELSE live
    /\ UNCHANGED <<impl, graph_vars, alg_vars, rbt_vars, fib_held, pq_vars, fib_vars, n_ins, n_ext>>

\* ----------------------------------------------- binomial heaps as laid out
\* The largest heap a client builds by hand.
MaxBinLen == 3
BinKeys == 1..MaxKey

_binomial_link(nd, x, y) ==
    [nd EXCEPT ![x].parent = y, ![x].sibling = nd[y].child,
               ![y].child = x, ![y].degree = @ + 1]

\* The binomial tree of degree k on the nodes first .. first + 2^k - 1, with
\* root first.
RECURSIVE BinTree(_, _, _)
BinTree(nd, first, k) ==
    IF k = 0 THEN nd
    ELSE LET half == Pow2(k - 1)
             n1 == BinTree(nd, first, k - 1)
             n2 == BinTree(n1, first + half, k - 1)
         IN _binomial_link(n2, first + half, first)

\* The trees for the bits k, k + 1, ... of a size whose remaining bits are
\* n, on the nodes from first on: [nd, head].
RECURSIVE BinForest(_, _, _, _)
BinForest(nd, n, k, first) ==
    IF n = 0 THEN [nd |-> nd, head |-> Nil]
    ELSE IF n % 2 = 0 THEN BinForest(nd, n \div 2, k + 1, first)
    ELSE LET rest == BinForest(BinTree(nd, first, k), n \div 2, k + 1,
                               first + Pow2(k))
         IN [nd |-> [rest.nd EXCEPT ![first].sibling = rest.head], head |-> first]

\* Every node's key is at least its parent's.
BinHeapOrdered(nd) ==
    \A x \in 1..Len(nd) : nd[x].parent # Nil => nd[nd[x].parent].key <= nd[x].key

\* The values of the entries of a heap passed as other: values self does
\* not hold.
OperandValue(i) == "w" \o ToString(i)

\* The heaps a client passes as other to +: well-formed binomial heaps of
\* 1..MaxBinLen entries: [nd, head] with len = Len(nd).
BinOperands ==
    UNION {{BinForest([i \in 1..n |-> BinomialTreeNode(keys[i], OperandValue(i))],
                      n, 0, 1) : keys \in [1..n -> BinKeys]} : n \in 1..MaxBinLen}

\* h = self + other for a second heap the client has built
BinAdd(other) ==
    /\ impl = "BinomialHeap"
    /\ BinHeapOrdered(other.nd)
    /\ ret' = Raised("__add__", 0, None,
                     BinomialAdd([head |-> bin_head, len |-> bin_len],
                                 [head |-> other.head, len |-> Len(other.nd)]).raised)
    /\ UNCHANGED <<impl, graph_vars, alg_vars, rbt_vars, fib_held, pq_vars, bin_vars, fib_vars, n_ins, n_ext, live>>

NextBin ==
    \/ \E k \in Keys, v \in Offered(DOMAIN bin_value_pointer) : BinInsert(k, v)
    \/ BinExtractMin
    \/ BinMinimum
    \/ \E v \in Offered(DOMAIN bin_value_pointer), k \in Keys : BinDecreaseKey(v, k)
    \/ \E v \in Offered(DOMAIN bin_value_pointer) : BinDelete(v)
    \/ \E other \in BinOperands : BinAdd(other)

\* ------------------------------------------------------------ FibonacciHeap
\* Nodes live in fib_node, a sequence indexed by node identity; a reference
\* is an index, Nil for None.  Dummy is the BinomialTreeNode(float("inf"),
\* None) that _consolidate creates and may leave in _min.
Dummy == -1

FibonacciHeapNode(self, key, value) ==
    [key |-> key, value |-> value, degree |-> 0, mark |-> FALSE,
     parent |-> Nil, left |-> self, right |-> self, child |-> Nil]

\* FibonacciHeapNode.__add__: the node store after self + other.
NodeAdd(nd, self, other) ==
    IF other = Nil THEN nd
    ELSE LET self_next == nd[self].right
             other_next == nd[other].right
             n1 == [nd EXCEPT ![self].right = other]
             n2 == [n1 EXCEPT ![other].left = self]
             n3 == [n2 EXCEPT ![self_next].left = other_next]
         IN [n3 EXCEPT ![other_next].right = self_next]

\* FibonacciHeapNode.__len__: the count, or 0 when the walk along .right
\* never comes back to self (the loop does not end).
RECURSIVE NodeLenFrom(_, _, _, _)
NodeLenFrom(nd, self, pointer, count) ==
    IF nd[pointer].right = self THEN count
    ELSE IF count > Len(nd) THEN 0
    ELSE NodeLenFrom(nd, self, nd[pointer].right, count + 1)

NodeLen(nd, self) == NodeLenFrom(nd, self, self, 1)

\* remove that leaves the left neighbour pointing at the removed node.
NodeRemove_half(nd, self) ==
    LET n2 == [nd EXCEPT ![nd[self].right].left = nd[self].left]
    IN [n2 EXCEPT ![self].right = self, ![self].left = self]

\* FibonacciHeapNode.remove
NodeRemove(nd, self) ==
    LET n1 == [nd EXCEPT ![nd[self].left].right = nd[self].right]
        n2 == [n1 EXCEPT ![n1[self].right].left = n1[self].left]
    IN [n2 EXCEPT ![self].right = self, ![self].left = self]

\* FibonacciHeapNode.link
NodeLink(nd, self, other) ==
    LET n1 == NodeRemove(nd, other)
        n2 == NodeAdd(n1, other, n1[self].child)
        n3 == [n2 EXCEPT ![self].child = other]
        n4 == [n3 EXCEPT ![other].parent = self]
        n5 == [n4 EXCEPT ![self].degree = @ + 1]
    IN [n5 EXCEPT ![other].mark = FALSE]

\* A Python dict as the sequence of its items in insertion order.
DictHas(d, k) == \E i \in 1..Len(d) : d[i].k = k
DictGet(d, k) == d[CHOOSE i \in 1..Len(d) : d[i].k = k].v
DictSet(d, k, v) ==
    IF DictHas(d, k)
    THEN [i \in 1..Len(d) |-> IF d[i].k = k THEN [k |-> k, v |-> v] ELSE d[i]]
    ELSE Append(d, [k |-> k, v |-> v])
DictDel(d, k) == SelectSeq(d, LAMBDA item : item.k # k)

NodeKey(nd, x) == IF x = Dummy THEN Inf ELSE nd[x].key

\* The while loop without the exchange of pointer and the placeholder entry:
\* the root met later always becomes the parent.
RECURSIVE ConsolidateWhile_keep(_)
ConsolidateWhile_keep(st) ==
    IF ~DictHas(st.ph, st.nd[st.pointer].degree) THEN st
    ELSE LET nd1 == NodeLink(st.nd, st.pointer,
                             DictGet(st.ph, st.nd[st.pointer].degree))
             ph2 == DictDel(st.ph, nd1[st.pointer].degree - 1)
         IN ConsolidateWhile_keep([nd |-> nd1, ph |-> ph2, pointer |-> st.pointer])

\* The while loop of _consolidate for one root: st = [nd, ph, pointer].
RECURSIVE ConsolidateWhile(_)
ConsolidateWhile(st) ==
    IF ~DictHas(st.ph, st.nd[st.pointer].degree) THEN st
    ELSE LET other == DictGet(st.ph, st.nd[st.pointer].degree)
             swap == st.nd[st.pointer].key > st.nd[other].key
             pointer == IF swap THEN other ELSE st.pointer
             ph1 == IF swap
                    THEN DictSet(st.ph, st.nd[pointer].degree, st.pointer)
                    ELSE st.ph
             nd1 == NodeLink(st.nd, pointer, DictGet(ph1, st.nd[pointer].degree))
             ph2 == DictDel(ph1, nd1[pointer].degree - 1)
         IN ConsolidateWhile([nd |-> nd1, ph |-> ph2, pointer |-> pointer])

\* The for loop of _consolidate: i iterations left.
RECURSIVE ConsolidateFor(_, _)
ConsolidateFor(st, i) ==
    IF i = 0 THEN st
    ELSE LET next == st.nd[st.pointer].right
             w == ConsolidateWhile(st)
             ph == DictSet(w.ph, w.nd[w.pointer].degree, w.pointer)
         IN ConsolidateFor([nd |-> w.nd, ph |-> ph, pointer |-> next], i - 1)

\* The final scan of _consolidate over placeholder.values().
RECURSIVE ConsolidateMin(_, _, _, _)
ConsolidateMin(nd, ph, i, minimum) ==
    IF i > Len(ph) THEN minimum
    ELSE ConsolidateMin(nd, ph, i + 1,
            IF nd[ph[i].v].key < NodeKey(nd, minimum) THEN ph[i].v ELSE minimum)

\* FibonacciHeap._consolidate with _min = min: [nd, min, hangs].
_consolidate(nd, min) ==
    LET count == NodeLen(nd, min) IN
    IF count = 0 THEN [nd |-> nd, min |-> min, hangs |-> TRUE]
    ELSE LET st == ConsolidateFor([nd |-> nd, ph |-> <<>>, pointer |-> min], count)
         IN [nd |-> st.nd, min |-> ConsolidateMin(st.nd, st.ph, 1, Dummy),
             hangs |-> FALSE]

\* dict without key k
Drop(d, k) == [x \in (DOMAIN d) \ {k} |-> d[x]]

\* is_empty that tests the wrong way round.
fib_is_empty_negative == fib_len < 0

fib_is_empty == fib_len = 0

\* A duplicate test that rejects only an equal (key, value) pair.
FibDuplicate_same_key(key, value) ==
    /\ value \in DOMAIN fib_value_pointer
    /\ fib_node[fib_value_pointer[value]].key = key

\* `value in self._value_pointer`
FibDuplicate(key, value) == value \in DOMAIN fib_value_pointer

FibInsert(key, value) ==
    /\ impl = "FibonacciHeap"
    /\ IF FibDuplicate(key, value)
       THEN /\ ret' = Raised("insert", key, value, "ValueError")
            /\ UNCHANGED <<fib_vars, n_ins>>
       ELSE IF fib_min = Dummy
       THEN \* self._min += node: a BinomialTreeNode has no __add__
            /\ ret' = Raised("insert", key, value, "TypeError")
            /\ UNCHANGED <<fib_vars, n_ins>>
       ELSE LET node == Len(fib_node) + 1
                nd0 == Append(fib_node, FibonacciHeapNode(node, key, value))
                nd1 == IF fib_min = Nil THEN nd0 ELSE NodeAdd(nd0, fib_min, node)
            IN /\ fib_node' = nd1
               /\ fib_min' = IF fib_min = Nil THEN node
                             ELSE IF key < nd1[fib_min].key THEN node
                             ELSE fib_min
               /\ fib_value_pointer' = Put(fib_value_pointer, value, node)
               /\ fib_len' = fib_len + 1
               /\ ret' = Returned("insert", key, value, None, 0)
               /\ n_ins' = n_ins + 1
    /\ live' = IF ret'.raised = None THEN live \cup {value} ELSE live
    /\ UNCHANGED <<impl, graph_vars, alg_vars, rbt_vars, fib_held, pq_vars, bin_vars, n_ext>>

FibMinimum ==
    /\ impl = "FibonacciHeap"
    /\ ret' = IF fib_min = Nil
              THEN Raised("minimum", 0, None, "AttributeError")
              ELSE IF fib_min = Dummy
              THEN Returned("minimum", 0, None, None, 0)
              ELSE Returned("minimum", 0, None, fib_node[fib_min].value, 0)
    /\ UNCHANGED <<impl, graph_vars, alg_vars, rbt_vars, fib_held, pq_vars, bin_vars, fib_vars, n_ins, n_ext, live>>

FibExtractMin ==
    /\ impl = "FibonacciHeap"
    /\ IF fib_is_empty
       THEN /\ ret' = Raised("extract_min", 0, None, "IndexError")
            /\ UNCHANGED <<fib_vars, n_ext>>
       ELSE IF fib_min \in {Nil, Dummy}
       THEN \* None has no .value; a BinomialTreeNode has no .right
            /\ ret' = Raised("extract_min", 0, None, "AttributeError")
            /\ UNCHANGED <<fib_vars, n_ext>>
       ELSE LET value == fib_node[fib_min].value
                nd1 == NodeAdd(fib_node, fib_min, fib_node[fib_min].child)
                single == nd1[fib_min].right = fib_min
                temp == nd1[fib_min].right
                cons == _consolidate(NodeRemove(nd1, fib_min), temp)
            IN IF ~single /\ cons.hangs
               THEN \* the call never returns
                    /\ fib_node' = cons.nd
                    /\ fib_min' = cons.min
                    /\ ret' = Raised("extract_min", 0, None, "<does not return>")
                    /\ UNCHANGED <<fib_len, fib_value_pointer, n_ext>>
               ELSE /\ fib_node' = IF single THEN nd1 ELSE cons.nd
                    /\ fib_min' = IF single THEN Nil ELSE cons.min
                    /\ fib_len' = fib_len - 1
                    /\ IF value \in DOMAIN fib_value_pointer
                       THEN /\ fib_value_pointer' = Drop(fib_value_pointer, value)
                            /\ ret' = Returned("extract_min", 0, None, value,
                                               fib_node[fib_min].key)
                            /\ n_ext' = n_ext + 1
                       ELSE /\ ret' = Raised("extract_min", 0, None, "KeyError")
                            /\ UNCHANGED <<fib_value_pointer, n_ext>>
    /\ live' = IF ret'.raised = None THEN live \ {ret'.result} ELSE live
    /\ UNCHANGED <<impl, graph_vars, alg_vars, rbt_vars, fib_held, pq_vars, bin_vars, n_ins>>

\* The values the client has passed to insert so far.
FibUsed == {fib_node[i].value : i \in 1..Len(fib_node)}

\* A run allocates at most limit nodes: an insert that would link one more
\* is not offered.  Inserts that raise allocate nothing.
FibWithin(limit, key, value) ==
    Len(fib_node) < limit \/ FibDuplicate(key, value) \/ fib_min = Dummy

\* FibonacciHeap defines no decrease_key (and no delete): the attribute
\* lookup heap.decrease_key fails before anything is called.
FibDecreaseKey(value, new_key) ==
    /\ impl = "FibonacciHeap"
    /\ ret' = Raised("decrease_key", new_key, value, "AttributeError")
    /\ UNCHANGED <<impl, graph_vars, alg_vars, rbt_vars, fib_held, pq_vars, bin_vars, fib_vars, n_ins, n_ext, live>>

NextFib ==
    \/ \E k \in Keys, v \in Offered(FibUsed) :
          FibWithin(MaxNodes, k, v) /\ FibInsert(k, v)
    \/ FibExtractMin
    \/ FibMinimum
    \/ \E v \in DOMAIN fib_value_pointer, k \in 1..MaxKey : FibDecreaseKey(v, k)

\* ------------------------------------------------------------------- Graph
\* Vertices are the integers the client names them by.  outbound_edges maps
\* a source to a dict (its items in insertion order) from destination to
\* edge value; inbound_edges maps a destination to the set of its sources.
MaxVertices == 2
Vertices == 1..MaxVertices

\* The record of a Graph call: key is the source (or the vertex), rkey the
\* destination, result the bool returned as "True" / "False".
GraphCall(op, source, destination, raised, result) ==
    Call(op, source, None, raised, result, destination)

\* Graph._check_vertices: the exception raised, None when it returns.
_check_vertices(source, destination) ==
    IF source \notin vertices THEN "ValueError"
    ELSE IF destination \notin vertices THEN "ValueError"
    ELSE IF source = destination THEN "ValueError"
    ELSE None

\* Graph.is_adjacent: [raised, result]
is_adjacent(source, destination) ==
    IF _check_vertices(source, destination) # None
    THEN [raised |-> _check_vertices(source, destination), result |-> None]
    ELSE IF source \notin DOMAIN outbound_edges
    THEN [raised |-> None, result |-> "False"]
    ELSE [raised |-> None,
          result |-> IF DictHas(outbound_edges[source], destination)
                     THEN "True" ELSE "False"]

GraphAddVertex(vertex) ==
    /\ impl = "Graph"
    /\ IF vertex \in vertices
       THEN /\ ret' = GraphCall("add_vertex", vertex, 0, "ValueError", None)
            /\ UNCHANGED graph_vars
       ELSE /\ vertices' = vertices \cup {vertex}
            /\ ret' = GraphCall("add_vertex", vertex, 0, None, None)
            /\ UNCHANGED <<outbound_edges, inbound_edges>>
    /\ UNCHANGED <<impl, alg_vars, rbt_vars, heap_vars, n_ins, n_ext, live>>

\* The first loop of remove_vertex from the i-th destination on:
\* self.inbound_edges[edge].remove(vertex), [inbound, raised].
RECURSIVE RemoveInbound(_, _, _, _)
RemoveInbound(inbound, destinations, i, vertex) ==
    IF i > Len(destinations) THEN [inbound |-> inbound, raised |-> None]
    ELSE LET edge == destinations[i].k IN
         IF edge \notin DOMAIN inbound THEN [inbound |-> inbound, raised |-> "KeyError"]
         ELSE IF vertex \notin inbound[edge]
         THEN [inbound |-> inbound, raised |-> "KeyError"]
         ELSE RemoveInbound(Put(inbound, edge, inbound[edge] \ {vertex}),
                            destinations, i + 1, vertex)

\* The second half of remove_vertex, on inbound as the first half left it:
\* the outcomes [outbound, raised].  The set is iterated in an order the
\* client does not control, and the first source met raises:
\* self.outbound_edges[edge] is a dict and has no remove.
RemoveOutbound(inbound, vertex) ==
    IF vertex \notin DOMAIN inbound
    THEN {[outbound |-> outbound_edges, raised |-> None]}
    ELSE IF inbound[vertex] # {}
    THEN {[outbound |-> outbound_edges,
           raised |-> IF edge \in DOMAIN outbound_edges
                      THEN "AttributeError" ELSE "KeyError"] :
             edge \in inbound[vertex]}
    ELSE IF vertex \notin DOMAIN outbound_edges
    THEN {[outbound |-> outbound_edges, raised |-> "KeyError"]}
    ELSE {[outbound |-> Drop(outbound_edges, vertex), raised |-> None]}

\* Graph.remove_vertex on a vertex of the graph: the outcomes
\* [outbound, inbound, raised] after self.vertices.remove(vertex).
remove_vertex(vertex) ==
    IF vertex \in DOMAIN outbound_edges
    THEN LET r == RemoveInbound(inbound_edges, outbound_edges[vertex], 1, vertex) IN
         IF r.raised # None
         THEN {[outbound |-> outbound_edges, inbound |-> r.inbound, raised |-> r.raised]}
         ELSE IF vertex \notin DOMAIN r.inbound
         THEN \* del self.inbound_edges[vertex]
              {[outbound |-> outbound_edges, inbound |-> r.inbound, raised |-> "KeyError"]}
         ELSE LET inbound == Drop(r.inbound, vertex) IN
              {[outbound |-> o.outbound, inbound |-> inbound, raised |-> o.raised] :
                  o \in RemoveOutbound(inbound, vertex)}
    ELSE {[outbound |-> o.outbound, inbound |-> inbound_edges, raised |-> o.raised] :
             o \in RemoveOutbound(inbound_edges, vertex)}

GraphRemoveVertex(vertex) ==
    /\ impl = "Graph"
    /\ IF vertex \notin vertices
       THEN /\ ret' = GraphCall("remove_vertex", vertex, 0, "ValueError", None)
            /\ UNCHANGED graph_vars
       ELSE \E r \in remove_vertex(vertex) :
               /\ vertices' = vertices \ {vertex}
               /\ outbound_edges' = r.outbound
               /\ inbound_edges' = r.inbound
               /\ ret' = GraphCall("remove_vertex", vertex, 0, r.raised, None)
    /\ UNCHANGED <<impl, alg_vars, rbt_vars, heap_vars, n_ins, n_ext, live>>

GraphAddEdge(source, destination) ==
    /\ impl = "Graph"
    /\ IF _check_vertices(source, destination) # None
       THEN /\ ret' = GraphCall("add_edge", source, destination,
                                _check_vertices(source, destination), None)
            /\ UNCHANGED graph_vars
       ELSE /\ outbound_edges' =
                  Put(outbound_edges, source,
                      DictSet(IF source \in DOMAIN outbound_edges
                              THEN outbound_edges[source] ELSE <<>>,
                              destination, None))
            /\ inbound_edges' =
                  Put(inbound_edges, destination,
                      (IF destination \in DOMAIN inbound_edges
                       THEN inbound_edges[destination] ELSE {}) \cup {source})
            /\ ret' = GraphCall("add_edge", source, destination, None, None)
            /\ UNCHANGED vertices
    /\ UNCHANGED <<impl, alg_vars, rbt_vars, heap_vars, n_ins, n_ext, live>>

GraphRemoveEdge(source, destination) ==
    /\ impl = "Graph"
    /\ LET a == is_adjacent(source, destination) IN
       IF a.raised # None
       THEN /\ ret' = GraphCall("remove_edge", source, destination, a.raised, None)
            /\ UNCHANGED graph_vars
       ELSE IF a.result = "False"
       THEN /\ ret' = GraphCall("remove_edge", source, destination, "ValueError", None)
            /\ UNCHANGED graph_vars
       ELSE /\ outbound_edges' = Put(outbound_edges, source,
                                     DictDel(outbound_edges[source], destination))
            /\ IF destination \in DOMAIN inbound_edges
                  /\ source \in inbound_edges[destination]
               THEN /\ inbound_edges' = Put(inbound_edges, destination,
                                            inbound_edges[destination] \ {source})
                    /\ ret' = GraphCall("remove_edge", source, destination, None, None)
               ELSE /\ ret' = GraphCall("remove_edge", source, destination,
                                        "KeyError", None)
                    /\ UNCHANGED inbound_edges
            /\ UNCHANGED vertices
    /\ UNCHANGED <<impl, alg_vars, rbt_vars, heap_vars, n_ins, n_ext, live>>

GraphIsAdjacent(source, destination) ==
    /\ impl = "Graph"
    /\ LET a == is_adjacent(source, destination) IN
       ret' = GraphCall("is_adjacent", source, destination, a.raised, a.result)
    /\ UNCHANGED <<impl, alg_vars, rbt_vars, heap_vars, graph_vars, n_ins, n_ext, live>>

NextGraph ==
    \/ \E v \in Vertices : GraphAddVertex(v)
    \/ \E v \in Vertices : GraphRemoveVertex(v)
    \/ \E s, d \in Vertices : GraphAddEdge(s, d)
    \/ \E s, d \in Vertices : GraphRemoveEdge(s, d)
    \/ \E s, d \in Vertices : GraphIsAdjacent(s, d)

InitGraph ==
    /\ impl = "Graph"
    /\ vertices = {}
    /\ outbound_edges = <<>>
    /\ inbound_edges = <<>>
    /\ bin_node = <<>>
    /\ bin_head = Nil
    /\ bin_len = 0
    /\ bin_value_pointer = <<>>
    /\ _container = <<>>
    /\ _value_to_index = <<>>
    /\ fib_node = <<>>
    /\ fib_min = Nil
    /\ fib_len = 0
    /\ fib_value_pointer = <<>>
    /\ fib_held = <<>>
    /\ ret = Call("__init__", 0, None, None, None, 0)
    /\ n_ins = 0
    /\ n_ext = 0
    /\ live = {}
    /\ sp_graph = <<>>
    /\ sp_source = 0
    /\ sp_distance = <<>>
    /\ sp_path = <<>>
    /\ rbt_node = <<>>
    /\ rbt_root = Nil
    /\ rbt_keys = {}

SpecGraph == InitGraph /\ [][NextGraph]_vars

\* ------------------------------------------------------------ specification
Init ==
    /\ impl \in {"PriorityQueue", "BinomialHeap", "FibonacciHeap"}
    /\ bin_node = <<>>
    /\ bin_head = Nil
    /\ bin_len = 0
    /\ bin_value_pointer = <<>>
    /\ _container = <<>>
    /\ _value_to_index = <<>>
    /\ fib_node = <<>>
    /\ fib_min = Nil
    /\ fib_len = 0
    /\ fib_value_pointer = <<>>
    /\ fib_held = <<>>
    /\ vertices = {}
    /\ outbound_edges = <<>>
    /\ inbound_edges = <<>>
    /\ ret = Call("__init__", 0, None, None, None, 0)
    /\ n_ins = 0
    /\ n_ext = 0
    /\ live = {}
    /\ sp_graph = <<>>
    /\ sp_source = 0
    /\ sp_distance = <<>>
    /\ sp_path = <<>>
    /\ rbt_node = <<>>
    /\ rbt_root = Nil
    /\ rbt_keys = {}

Next == NextPQ \/ NextBin \/ NextFib

Spec == Init /\ [][Next]_vars

\* ------------------------------------------------- two FibonacciHeaps and +
\* The client holds a second FibonacciHeap.  fib_min, fib_len and
\* fib_value_pointer are the fields of the heap its calls are made on (self);
\* fib_held holds the fields of the other heap; the nodes of both are in
\* fib_node.
FibonacciHeap(min, len, value_pointer) ==
    [_min |-> min, _len |-> len, _value_pointer |-> value_pointer]

\* other = self; self = FibonacciHeap()
FibConstruct ==
    /\ impl = "FibonacciHeap"
    /\ fib_held = <<>>
    /\ fib_held' = <<FibonacciHeap(fib_min, fib_len, fib_value_pointer)>>
    /\ fib_min' = Nil
    /\ fib_len' = 0
    /\ fib_value_pointer' = <<>>
    /\ ret' = Call("__init__", 0, None, None, None, 0)
    /\ n_ins' = 0
    /\ n_ext' = 0
    /\ live' = {}
    /\ UNCHANGED <<impl, graph_vars, alg_vars, rbt_vars, pq_vars, bin_vars, fib_node>>

\* An overlap test that reports only a self whose every value is in other.
FibOverlap_all(self_vp, other_vp) == (DOMAIN self_vp) \subseteq (DOMAIN other_vp)

\* not self._value_pointer.keys().isdisjoint(other._value_pointer.keys())
FibOverlap(self_vp, other_vp) == (DOMAIN self_vp) \cap (DOMAIN other_vp) # {}

\* self._value_pointer | other._value_pointer
DictUnion(d, e) ==
    [x \in (DOMAIN d) \cup (DOMAIN e) |-> IF x \in DOMAIN e THEN e[x] ELSE d[x]]

\* h = self + other on the two heaps the client built; its later calls are
\* made on h.  The client still holds the operands: h is other when self is
\* empty, self when other is empty, and a new object otherwise.
FibAdd ==
    /\ impl = "FibonacciHeap"
    /\ Len(fib_held) = 1
    /\ LET other == fib_held[1] IN
       IF FibOverlap(fib_value_pointer, other._value_pointer)
       THEN /\ ret' = Raised("__add__", 0, None, "ValueError")
            /\ UNCHANGED <<fib_vars, fib_held, n_ins, n_ext, live>>
       ELSE IF fib_len = 0
       THEN \* return other
            /\ fib_min' = other._min
            /\ fib_len' = other._len
            /\ fib_value_pointer' = other._value_pointer
            /\ fib_held' = <<FibonacciHeap(fib_min, fib_len, fib_value_pointer)>>
            /\ ret' = Returned("__add__", 0, None, None, 0)
            /\ live' = DOMAIN other._value_pointer
            /\ n_ins' = Cardinality(live')
            /\ n_ext' = 0
            /\ UNCHANGED fib_node
       ELSE IF other._len = 0
       THEN \* return self
            /\ ret' = Returned("__add__", 0, None, None, 0)
            /\ UNCHANGED <<fib_vars, fib_held, n_ins, n_ext, live>>
       ELSE IF fib_min \in {Nil, Dummy}
       THEN \* self._min + other._min: neither None nor a BinomialTreeNode
            \* has __add__, and FibonacciHeapNode has no __radd__
            /\ ret' = Raised("__add__", 0, None, "TypeError")
            /\ UNCHANGED <<fib_vars, fib_held, n_ins, n_ext, live>>
       ELSE IF other._min \in {Nil, Dummy}
       THEN \* other.right on a BinomialTreeNode, or other._min.key on None
            /\ ret' = Raised("__add__", 0, None, "AttributeError")
            /\ UNCHANGED <<fib_vars, fib_held, n_ins, n_ext, live>>
       ELSE LET nd1 == NodeAdd(fib_node, fib_min, other._min) IN
            /\ fib_node' = nd1
            /\ fib_min' = IF nd1[fib_min].key < nd1[other._min].key
                          THEN fib_min ELSE other._min
            /\ fib_len' = fib_len + other._len
            /\ fib_value_pointer' = DictUnion(fib_value_pointer, other._value_pointer)
            /\ fib_held' = <<other, FibonacciHeap(fib_min, fib_len, fib_value_pointer)>>
            /\ ret' = Returned("__add__", 0, None, None, 0)
            /\ live' = live \cup DOMAIN other._value_pointer
            /\ n_ins' = Cardinality(live')
            /\ n_ext' = 0
    /\ UNCHANGED <<impl, graph_vars, alg_vars, rbt_vars, pq_vars, bin_vars>>

InitMerge == Init /\ impl = "FibonacciHeap"

\* The client inserts values that self does not hold; a value of the other
\* heap is among them.
NextMerge ==
    \/ \E k \in Keys, v \in Offered(FibUsed) \ DOMAIN fib_value_pointer :
          FibWithin(MaxNodes, k, v) /\ FibInsert(k, v)
    \/ FibExtractMin
    \/ FibMinimum
    \/ FibConstruct
    \/ FibAdd

SpecMerge == InitMerge /\ [][NextMerge]_vars

\* ---------------------------------------- a FibonacciHeap loaded and drained
\* The client inserts up to MaxLoad entries with distinct values and then
\* calls extract_min repeatedly, with no insert after the first extraction.
MaxLoad == 9
\* Finite keys of the load: two of them, so that ties and both orders occur.
LoadKeys == {1, 2}
\* The value inserted with the i-th entry.
LoadValue(i) == "v" \o ToString(i)

LoadInsert(key) ==
    /\ n_ext = 0
    /\ Len(fib_node) < MaxLoad
    /\ FibInsert(key, LoadValue(Len(fib_node) + 1))

NextLoad ==
    \/ \E k \in LoadKeys : LoadInsert(k)
    \/ FibExtractMin

SpecLoad == InitMerge /\ [][NextLoad]_vars

\* ------------------------------------------------ calls on either heap
\* The client makes its next calls on the i-th heap it holds: that heap
\* becomes self, the heap that was self is held in its place.
FibSelect(i) ==
    /\ impl = "FibonacciHeap"
    /\ i \in 1..Len(fib_held)
    /\ fib_min' = fib_held[i]._min
    /\ fib_len' = fib_held[i]._len
    /\ fib_value_pointer' = fib_held[i]._value_pointer
    /\ fib_held' = [fib_held EXCEPT
                      ![i] = FibonacciHeap(fib_min, fib_len, fib_value_pointer)]
    /\ ret' = Call("select", i, None, None, None, 0)
    /\ live' = DOMAIN fib_held[i]._value_pointer
    /\ n_ins' = Cardinality(live')
    /\ n_ext' = 0
    /\ UNCHANGED <<impl, graph_vars, alg_vars, rbt_vars, pq_vars, bin_vars, fib_node>>

NextOwn ==
    \/ NextMerge
    \/ \E i \in 1..Len(fib_held) : FibSelect(i)

SpecOwn == InitMerge /\ [][NextOwn]_vars

\* ------------------------------------------------------- a deeper load
\* Enough entries for a root of degree 4: sixteen roots must be left when
\* extract_min consolidates.
MaxDeep == 17

\* The load is inserted in ascending key order, then drained.
DeepInsert(key) ==
    /\ n_ext = 0
    /\ Len(fib_node) < MaxDeep
    /\ Len(fib_node) > 0 => key >= fib_node[Len(fib_node)].key
    /\ FibInsert(key, LoadValue(Len(fib_node) + 1))

NextDeep ==
    \/ \E k \in LoadKeys : DeepInsert(k)
    \/ FibExtractMin

SpecDeep == InitMerge /\ [][NextDeep]_vars

\* ------------------------------------------- a BinomialHeap that holds entries
\* insert cannot build one, so the heaps of this specification are built the
\* way a binomial heap is laid out, from BinomialTreeNode objects joined by
\* _binomial_link: one tree of degree k for every bit k of the size, the
\* root list in increasing degree.  The heap holds at most MaxBinLen entries
\* with finite keys, node i holding ValueOrder[i].
InitBin ==
    /\ impl = "BinomialHeap"
    /\ \E n \in 1..MaxBinLen : \E keys \in [1..n -> BinKeys] :
         LET heap == BinForest([i \in 1..n |-> BinomialTreeNode(keys[i], ValueOrder[i])],
                               n, 0, 1)
         IN /\ BinHeapOrdered(heap.nd)
            /\ bin_node = heap.nd
            /\ bin_head = heap.head
            /\ bin_len = n
            /\ bin_value_pointer = [v \in {ValueOrder[i] : i \in 1..n} |->
                                      CHOOSE i \in 1..n : ValueOrder[i] = v]
            /\ live = {ValueOrder[i] : i \in 1..n}
            /\ n_ins = n
    /\ _container = <<>>
    /\ _value_to_index = <<>>
    /\ fib_node = <<>>
    /\ fib_min = Nil
    /\ fib_len = 0
    /\ fib_value_pointer = <<>>
    /\ fib_held = <<>>
    /\ sp_graph = <<>>
    /\ sp_source = 0
    /\ sp_distance = <<>>
    /\ sp_path = <<>>
    /\ rbt_node = <<>>
    /\ rbt_root = Nil
    /\ rbt_keys = {}
    /\ vertices = {}
    /\ outbound_edges = <<>>
    /\ inbound_edges = <<>>
    /\ ret = Call("__init__", 0, None, None, None, 0)
    /\ n_ext = 0

SpecBin == InitBin /\ [][NextBin]_vars
\* =================================================================== claims
ContainerValues == {_container[i].value : i \in 1..Len(_container)}
KeyOf(c, v) == c[CHOOSE i \in 1..Len(c) : c[i].value = v].key
IsPQ == impl = "PriorityQueue"
IsBin == impl = "BinomialHeap"
IsFib == impl = "FibonacciHeap"

\* C1: for every entry stored at 1-based position i of _container,
\* _value_to_index[entry.value] = i, in every state reached by insert,
\* extract_minimum and decrease_key.
C1_MapReflectsPosition ==
    \A i \in 1..Len(_container) :
        /\ _container[i].value \in DOMAIN _value_to_index
        /\ _value_to_index[_container[i].value] = i

\* C2: on a non-empty queue extract_minimum returns the value of an entry
\* whose key is minimal among the stored entries and removes exactly that
\* entry; stored values are pairwise distinct, and the keys returned by
\* consecutive extractions never decrease.
C2_ExtractMinimumSorted ==
    /\ [](Cardinality(ContainerValues) = Len(_container))
    /\ [][(IsPQ /\ ret'.op = "extract_minimum" /\ Len(_container) > 0) =>
            /\ ret'.raised = None
            /\ \E i \in 1..Len(_container) :
                 /\ _container[i].value = ret'.result
                 /\ \A j \in 1..Len(_container) :
                        _container[i].key <= _container[j].key
                 /\ Len(_container') = Len(_container) - 1
                 /\ {_container'[j] : j \in 1..Len(_container')}
                      = {_container[j] : j \in 1..Len(_container)} \ {_container[i]}
            /\ (ret.op = "extract_minimum" /\ ret.raised = None
                  => ret.rkey <= ret'.rkey)]_vars

\* C2 witness: a second extraction in a row, from a queue that still holds
\* two entries with different keys.
C2_Witness ==
    /\ IsPQ /\ ret.op = "extract_minimum" /\ ret.raised = None
    /\ n_ext >= 2 /\ Len(_container) = 2
    /\ _container[1].key < _container[2].key
    /\ ret.rkey < _container[1].key

\* C3: every non-root 1-based index i has
\* _container[i].key >= _container[i // 2].key.
C3_HeapOrder ==
    \A i \in 2..Len(_container) : _container[i].key >= _container[_parent(i)].key

\* C3 witness: a decrease_key that brought an entry to the root of a
\* four-entry queue after an extraction.
C3_Witness ==
    /\ IsPQ /\ ret.op = "decrease_key" /\ ret.raised = None
    /\ Len(_container) = 3 /\ n_ext >= 1
    /\ _container[1].value = ret.value
    /\ _container[1].key < _container[2].key

\* C4: a successful decrease_key(value, new_key) on a stored value sets the
\* key of the entry holding that value to new_key and changes no other
\* entry's key; if new_key is then smaller than every other key, the value
\* is at the root (what minimum() and extract_minimum() return).
C4_DecreaseKeySetsThatKey ==
    [][(IsPQ /\ ret'.op = "decrease_key" /\ ret'.raised = None
          /\ ret'.value \in ContainerValues) =>
         /\ ContainerValues' = ContainerValues
         /\ \A v \in ContainerValues :
               KeyOf(_container', v) =
                  IF v = ret'.value THEN ret'.key ELSE KeyOf(_container, v)
         /\ ((\A v \in ContainerValues \ {ret'.value} :
                 ret'.key < KeyOf(_container, v))
              => _container'[1].value = ret'.value)]_vars

\* C5: decrease_key(value, new_key) on a stored value raises and leaves the
\* queue unchanged whenever new_key is not strictly smaller than the
\* entry's current key, equal keys included.
C5_DecreaseKeyStrict ==
    [][(IsPQ /\ ret'.op = "decrease_key" /\ ret'.value \in ContainerValues
          /\ ret'.key >= KeyOf(_container, ret'.value)) =>
         (ret'.raised # None /\ UNCHANGED pq_vars)]_vars

\* C6: decrease_key(value, k) raises and changes nothing whenever value is
\* not stored in the queue, never inserted or already extracted.
C6_DecreaseKeyUnknownValue ==
    [][(IsPQ /\ ret'.op = "decrease_key" /\ ret'.value \notin ContainerValues) =>
         (ret'.raised # None /\ UNCHANGED pq_vars)]_vars
\* The values and keys a heap of the constructed class reports as stored.
FibStoredKey(v) == fib_node[fib_value_pointer[v]].key

\* C7: PriorityQueue.insert and FibonacciHeap.insert of a value that is in
\* the heap, with any key, raise ValueError and leave the heap unchanged.
C7_DuplicateInsertRejected ==
    [][((IsPQ \/ IsFib) /\ ret'.op = "insert" /\ ret'.value \in live) =>
         (ret'.raised = "ValueError" /\ UNCHANGED <<heap_vars, live, n_ins, n_ext>>)]_vars

\* C7 witness: a FibonacciHeap holding two entries has refused a stored
\* value offered with a key other than its stored key.
C7_Witness ==
    /\ IsFib /\ ret.op = "insert" /\ ret.raised = "ValueError"
    /\ ret.value \in live /\ fib_len = 2
    /\ ret.key # FibStoredKey(ret.value)

\* C8: extract_minimum / extract_min on a heap that holds no entries raises
\* IndexError and leaves the heap empty and unchanged, for all three heaps.
C8_ExtractFromEmptyFails ==
    [][(ret'.op \in {"extract_minimum", "extract_min"} /\ live = {}) =>
         /\ ret'.raised = "IndexError"
         /\ UNCHANGED <<heap_vars, live, n_ins, n_ext>>
         /\ Len(_container') = 0 /\ bin_len' = 0 /\ fib_len' = 0]_vars

\* C8 witness: a FibonacciHeap emptied by two extractions has refused a
\* third.
C8_Witness ==
    /\ IsFib /\ ret.op = "extract_min" /\ ret.raised = "IndexError"
    /\ n_ins = 2 /\ n_ext = 2 /\ live = {}

\* C9: minimum() on a heap that holds no entries raises IndexError, for
\* PriorityQueue, BinomialHeap and FibonacciHeap.
C9_MinimumOnEmptyRaisesIndexError ==
    [][(ret'.op = "minimum" /\ live = {}) => ret'.raised = "IndexError"]_vars

\* C10: for PriorityQueue and FibonacciHeap, len(heap) = n - m after n
\* successful inserts and m successful extractions, is_empty() holds
\* exactly when n = m, and a call that raises, or minimum(), leaves the
\* size unchanged.
HeapLen == IF IsPQ THEN pq_len ELSE fib_len
HeapIsEmpty == IF IsPQ THEN pq_is_empty ELSE fib_is_empty

C10_SizeConservation ==
    /\ []((IsPQ \/ IsFib) =>
            /\ HeapLen = n_ins - n_ext
            /\ HeapLen = Cardinality(live)
            /\ (HeapIsEmpty <=> n_ins = n_ext))
    /\ [][((IsPQ \/ IsFib) /\ (ret'.raised # None \/ ret'.op = "minimum")) =>
            HeapLen' = HeapLen]_vars

\* C10 witness: a FibonacciHeap after three inserts and two extractions,
\* the last call a refused duplicate insert.
C10_Witness ==
    /\ IsFib /\ n_ins = 3 /\ n_ext = 2 /\ fib_len = 1
    /\ ret.op = "insert" /\ ret.raised = "ValueError"

\* C12: in a FibonacciHeap that holds entries, _min is a node of the heap
\* that carries a live value, and its key (the key of what minimum()
\* returns) is the smallest key among the live entries; heaps whose
\* remaining keys are all float("inf") included.
C12_MinIsSmallestLive ==
    (IsFib /\ live # {}) =>
        /\ fib_min \in 1..Len(fib_node)
        /\ fib_node[fib_min].value \in live
        /\ \A v \in live : fib_node[fib_min].key <= FibStoredKey(v)

\* C15: BinomialHeap.insert(key, value) with a value the heap does not
\* track returns normally; afterwards len(heap) is one larger and the value
\* is a key of _value_pointer.
C15_BinomialInsertSucceeds ==
    [][(IsBin /\ ret'.op = "insert"
          /\ ret'.value \notin DOMAIN bin_value_pointer) =>
         /\ ret'.raised = None
         /\ bin_len' = bin_len + 1
         /\ ret'.value \in DOMAIN bin_value_pointer']_vars

\* C19: FibonacciHeap.decrease_key(value, new_key) on a live value with
\* new_key below its current key returns normally and the entry then has
\* key new_key; with new_key >= the current key it raises ValueError.
C19_FibonacciDecreaseKey ==
    [][(IsFib /\ ret'.op = "decrease_key" /\ ret'.value \in live) =>
         IF ret'.key < FibStoredKey(ret'.value)
         THEN /\ ret'.raised = None
              /\ fib_node'[fib_value_pointer'[ret'.value]].key = ret'.key
         ELSE ret'.raised = "ValueError"]_vars

\* The smallest key among the entries a heap's value map tracks.
TrackedKeys(vp) == {fib_node[vp[v]].key : v \in DOMAIN vp}
SmallestKey(ks) == CHOOSE k \in ks : \A j \in ks : k <= j

\* C13: for FibonacciHeaps a and b with disjoint value sets, a + b returns
\* a heap of size len(a) + len(b), and when that heap holds entries its
\* minimum() is a value of a or b whose key is the smaller of the two
\* heaps' smallest keys.
C13_MergeSizeAndMinimum ==
    [][(IsFib /\ ret'.op = "__add__" /\ Len(fib_held) = 1
          /\ ~FibOverlap(fib_value_pointer, fib_held[1]._value_pointer)) =>
         LET both == DictUnion(fib_value_pointer, fib_held[1]._value_pointer) IN
         /\ ret'.raised = None
         /\ fib_len' = fib_len + fib_held[1]._len
         /\ (DOMAIN both # {} =>
               /\ fib_min' \in 1..Len(fib_node')
               /\ fib_node'[fib_min'].value \in DOMAIN both
               /\ fib_node'[fib_min'].key = SmallestKey(TrackedKeys(both)))]_vars

\* C14: a + b on FibonacciHeaps that share a value raises ValueError and
\* modifies neither operand: nodes and ring links, _min, _len and
\* _value_pointer of both are unchanged.
C14_MergeOverlapRejected ==
    [][(IsFib /\ ret'.op = "__add__" /\ Len(fib_held) = 1
          /\ (DOMAIN fib_value_pointer) \cap (DOMAIN fib_held[1]._value_pointer) # {}) =>
         /\ ret'.raised = "ValueError"
         /\ UNCHANGED <<fib_vars, fib_held>>]_vars

\* C14 witness: a heap of two entries has refused to be added to a heap of
\* one entry that holds one of its two values.
C14_Witness ==
    /\ IsFib /\ ret.op = "__add__" /\ ret.raised = "ValueError"
    /\ Len(fib_held) = 1
    /\ fib_len = 2 /\ fib_held[1]._len = 1
    /\ DOMAIN fib_held[1]._value_pointer \subseteq DOMAIN fib_value_pointer

\* The key a value was inserted with (node keys never change).
InsertedKey(v) == fib_node[CHOOSE i \in 1..Len(fib_node) : fib_node[i].value = v].key

\* C11: every extract_min on a FibonacciHeap that holds entries returns
\* normally, returns a live value whose key is the smallest among the live
\* entries, and consecutive extractions return non-decreasing keys; so n
\* extractions after n inserts return every value once in key order.
C11_FibonacciSortedExtraction ==
    [][(IsFib /\ ret'.op = "extract_min" /\ live # {}) =>
         /\ ret'.raised = None
         /\ ret'.result \in live
         /\ \A v \in live : InsertedKey(ret'.result) <= InsertedKey(v)
         /\ (ret.op = "extract_min" /\ ret.raised = None => ret.rkey <= ret'.rkey)]_vars

\* The nodes of a binomial heap: those reachable from its head by sibling
\* and child links; its entries are their (key, value) pairs.
RECURSIVE BinReach(_, _, _)
BinReach(nd, R, fuel) ==
    LET next == (R \cup {nd[x].sibling : x \in R} \cup {nd[x].child : x \in R}) \ {Nil}
    IN IF fuel = 0 \/ next = R THEN R ELSE BinReach(nd, next, fuel - 1)
BinNodes(nd, head) == IF head = Nil THEN {} ELSE BinReach(nd, {head}, Len(nd))
BinEntries(nd, head) ==
    {[key |-> nd[x].key, value |-> nd[x].value] : x \in BinNodes(nd, head)}
RECURSIVE BinChain(_, _, _)
BinChain(nd, x, fuel) ==
    IF x = Nil \/ fuel = 0 THEN <<>>
    ELSE <<x>> \o BinChain(nd, nd[x].sibling, fuel - 1)
BinRoots == BinChain(bin_node, bin_head, Len(bin_node))
BinRootSet == {BinRoots[i] : i \in 1..Len(BinRoots)}
BinMinRoots == {r \in BinRootSet : \A q \in BinRootSet : bin_node[r].key <= bin_node[q].key}

\* A well-formed binomial heap: roots in strictly increasing degree, every
\* node of degree k with children of degrees k-1 .. 0 that point back to it
\* and have keys no smaller, _len the number of nodes, and _value_pointer
\* mapping exactly the values held to the nodes that hold them.
BinWellFormed ==
    LET nodes == BinNodes(bin_node, bin_head) IN
    /\ Cardinality(nodes) = bin_len
    /\ \A i \in 1..Len(BinRoots) :
          /\ bin_node[BinRoots[i]].parent = Nil
          /\ i > 1 => bin_node[BinRoots[i - 1]].degree < bin_node[BinRoots[i]].degree
    /\ \A x \in nodes :
          LET ch == BinChain(bin_node, bin_node[x].child, Len(bin_node)) IN
          /\ Len(ch) = bin_node[x].degree
          /\ \A j \in 1..Len(ch) :
                /\ bin_node[ch[j]].parent = x
                /\ bin_node[ch[j]].degree = bin_node[x].degree - j
                /\ bin_node[ch[j]].key >= bin_node[x].key
    /\ DOMAIN bin_value_pointer = {bin_node[x].value : x \in nodes}
    /\ \A v \in DOMAIN bin_value_pointer :
          /\ bin_value_pointer[v] \in nodes
          /\ bin_node[bin_value_pointer[v]].value = v

\* C16: extract_min on a well-formed BinomialHeap that holds entries returns
\* the value of a root of smallest key and removes exactly that entry,
\* whether that root is the head or not and has children or not; len is
\* then one less and the value is no longer a key of _value_pointer.
C16_BinomialExtractMin ==
    [][(IsBin /\ ret'.op = "extract_min" /\ bin_len > 0 /\ BinWellFormed) =>
         /\ ret'.raised = None
         /\ \E r \in BinMinRoots :
               /\ ret'.result = bin_node[r].value
               /\ BinEntries(bin_node', bin_head')
                    = BinEntries(bin_node, bin_head)
                        \ {[key |-> bin_node[r].key, value |-> bin_node[r].value]}
         /\ bin_len' = bin_len - 1
         /\ ret'.result \notin DOMAIN bin_value_pointer']_vars

\* C17: minimum() on a well-formed BinomialHeap that holds entries returns
\* the value of a root of smallest key and changes nothing.
C17_BinomialMinimum ==
    [][(IsBin /\ ret'.op = "minimum" /\ bin_len > 0 /\ BinWellFormed) =>
         /\ ret'.raised = None
         /\ \E r \in BinMinRoots : ret'.result = bin_node[r].value
         /\ UNCHANGED bin_vars]_vars

\* C18: delete(value) on a well-formed BinomialHeap that holds value returns
\* normally, removes exactly the entry with that value (every other value
\* stays with its key) and leaves len one less.
C18_BinomialDelete ==
    [][(IsBin /\ ret'.op = "delete" /\ BinWellFormed
          /\ ret'.value \in DOMAIN bin_value_pointer) =>
         /\ ret'.raised = None
         /\ BinEntries(bin_node', bin_head')
              = {e \in BinEntries(bin_node, bin_head) : e.value # ret'.value}
         /\ bin_len' = bin_len - 1]_vars

\* C20: PriorityQueue, BinomialHeap and FibonacciHeap return the same
\* values from the same calls.  PriorityQueue returns v from the extraction
\* that follows insert(k, v) of a new value into a heap that holds nothing
\* else (C2), so each of the three does: that extraction returns normally
\* and its result is v.
C20_SameExtractedValues ==
    [][(/\ ret.op = "insert" /\ ret.raised # "ValueError"
        /\ live \subseteq {ret.value}
        /\ ret'.op \in {"extract_minimum", "extract_min"}) =>
         (ret'.raised = None /\ ret'.result = ret.value)]_vars

\* -------------------------------------------------------- failure atomicity
\* The calls that change a heap.
MutatingOps == {"insert", "extract_minimum", "extract_min", "decrease_key",
                "delete", "__add__"}

\* C21: a mutating call (insert, extract, decrease_key, delete, +) that
\* raises leaves the heap exactly as it was before the call: size counter,
\* stored entries and keys, root list and ring links, value map.
C21_NoPartialFailure ==
    [][(ret'.op \in MutatingOps /\ ret'.raised \notin {None, "<does not return>"})
          => UNCHANGED heap_vars]_vars

\* ------------------------------------------------- FibonacciHeap structure
\* The nodes met from x by following .right until a node repeats.
RECURSIVE FibRingFrom(_, _, _)
FibRingFrom(nd, x, seen) ==
    IF x \in seen \/ x \notin 1..Len(nd) THEN seen
    ELSE FibRingFrom(nd, nd[x].right, seen \cup {x})

FibRing(nd, x) == FibRingFrom(nd, x, {})

\* The nodes met from the nodes of R through .child and .right.
RECURSIVE FibReach(_, _)
FibReach(nd, R) ==
    LET S == R \cup UNION {FibRing(nd, nd[x].child) : x \in R}
    IN IF S = R THEN R ELSE FibReach(nd, S)

\* The root ring of the heap and every node under it.
FibRoots == FibRing(fib_node, fib_min)
FibNodes == FibReach(fib_node, FibRoots)

\* C29: after extract_min returns, every node of the root ring has no
\* parent, and every other node of the heap is in the child ring of its
\* parent.
C29_ExtractMinClearsParents ==
    (IsFib /\ ret.op = "extract_min" /\ ret.raised = None) =>
        /\ \A x \in FibRoots : fib_node[x].parent = Nil
        /\ \A x \in FibNodes \ FibRoots :
              /\ fib_node[x].parent \in 1..Len(fib_node)
              /\ x \in FibRing(fib_node, fib_node[fib_node[x].parent].child)

\* The root ring extract_min hands to _consolidate: the child ring of the
\* minimum spliced in, the minimum removed.  A minimum that is alone in its
\* ring is dropped without a call of _consolidate.
FibRingBeforeConsolidate ==
    LET nd1 == NodeAdd(fib_node, fib_min, fib_node[fib_min].child)
    IN IF nd1[fib_min].right = fib_min THEN {}
       ELSE FibRing(NodeRemove(nd1, fib_min), nd1[fib_min].right)

\* C30: an extract_min that leaves the heap non-empty leaves no two roots
\* of the same degree, and every root of the ring handed to _consolidate is
\* afterwards a root or a descendant of a root.
C30_ConsolidateUniqueDegrees ==
    [][(IsFib /\ ret'.op = "extract_min" /\ ret'.raised = None /\ fib_len' > 0)
          => /\ \A x, y \in FibRoots' :
                   x # y => fib_node'[x].degree # fib_node'[y].degree
             /\ \A x \in FibRingBeforeConsolidate : x \in FibNodes']_vars

\* C23: in a FibonacciHeap every node reachable from _min through ring and
\* child links that has a parent has a key no smaller than its parent's,
\* and no smaller than the key of the node whose child ring holds it.
C23_FibonacciHeapOrder ==
    IsFib =>
        /\ \A x \in FibNodes :
              fib_node[x].parent # Nil =>
                  fib_node[x].key >= fib_node[fib_node[x].parent].key
        /\ \A p \in FibNodes : \A x \in FibRing(fib_node, fib_node[p].child) :
              fib_node[x].key >= fib_node[p].key

\* A node under a parent with a smaller key has been reached.
C23_Witness ==
    /\ IsFib
    /\ \E x \in FibNodes :
          /\ fib_node[x].parent # Nil
          /\ x \in FibRing(fib_node, fib_node[fib_node[x].parent].child)
          /\ fib_node[fib_node[x].parent].key < fib_node[x].key
          /\ fib_node[x].parent \in FibNodes

\* The Fibonacci numbers F(1) = F(2) = 1, F(n) = F(n-1) + F(n-2).
RECURSIVE F(_)
F(n) == IF n <= 2 THEN 1 ELSE F(n - 1) + F(n - 2)

\* The nodes of the subtree of x, x included.
FibSubtree(x) == FibReach(fib_node, {x})

\* C24: a node of a FibonacciHeap whose degree field is k has exactly k
\* nodes in its child ring and at least F(k+2) nodes in its subtree, itself
\* included, whatever k is.
C24_FibonacciProperty ==
    IsFib =>
        \A x \in FibNodes :
            /\ Cardinality(FibRing(fib_node, fib_node[x].child)) = fib_node[x].degree
            /\ Cardinality(FibSubtree(x)) >= F(fib_node[x].degree + 2)

\* What a heap object reports: its entries (those reachable from its _min),
\* the entry at its _min, and its length.
FibObservable(nd, heap) ==
    [entries |-> {<<nd[x].key, nd[x].value>> :
                     x \in FibReach(nd, FibRing(nd, heap._min))},
     min |-> IF heap._min \in 1..Len(nd)
             THEN <<nd[heap._min].key, nd[heap._min].value>> ELSE <<>>,
     len |-> heap._len]

\* C22: every node belongs to one heap: an insert or extract_min on one
\* FibonacciHeap object changes nothing that another heap object reports,
\* before and after h = a + b, whether the call is on h or on an operand.
C22_NodeOwnership ==
    [][(ret'.op \in {"insert", "extract_min"})
          => \A i \in 1..Len(fib_held) :
                FibObservable(fib_node', fib_held[i]) =
                    FibObservable(fib_node, fib_held[i])]_vars

\* C28: h = a + b on two well-formed binomial heaps with disjoint values
\* returns a well-formed heap: the root list in strictly increasing degree,
\* every tree of degree k with 2^k heap-ordered nodes, len and
\* _value_pointer those of both operands together.
C28_BinomialMergePostcondition ==
    [][(IsBin /\ ret'.op = "__add__" /\ BinWellFormed)
          => (ret'.raised = None /\ BinWellFormed')]_vars

\* ------------------------------------------------------------------- Graph
IsGraph == impl = "Graph"

\* d is a key of outbound_edges[s]; s is a member of inbound_edges[d].
HasOutbound(out, s, d) == s \in DOMAIN out /\ DictHas(out[s], d)
HasInbound(inb, s, d) == d \in DOMAIN inb /\ s \in inb[d]

\* C25: after any sequence of add_vertex, add_edge, remove_edge and
\* remove_vertex calls, returning or raising, d is a key of
\* outbound_edges[s] exactly when s is a member of inbound_edges[d];
\* add_edge(s, d) that returns has set both sides and remove_edge(s, d)
\* that returns has removed both.
C25_AdjacencyMirror ==
    IsGraph =>
        /\ \A s, d \in Vertices :
              HasOutbound(outbound_edges, s, d) <=> HasInbound(inbound_edges, s, d)
        /\ (ret.op = "add_edge" /\ ret.raised = None) =>
              /\ HasOutbound(outbound_edges, ret.key, ret.rkey)
              /\ HasInbound(inbound_edges, ret.key, ret.rkey)
        /\ (ret.op = "remove_edge" /\ ret.raised = None) =>
              /\ ~HasOutbound(outbound_edges, ret.key, ret.rkey)
              /\ ~HasInbound(inbound_edges, ret.key, ret.rkey)

\* C26: remove_vertex(v) on a vertex of the graph returns, removes v and
\* only v from vertices, and leaves v neither as a key nor inside an entry
\* of outbound_edges or inbound_edges, whatever edges v had.
C26_RemoveVertexRemovesEdges ==
    [][(IsGraph /\ ret'.op = "remove_vertex" /\ ret'.key \in vertices)
          => /\ ret'.raised = None
             /\ vertices' = vertices \ {ret'.key}
             /\ ret'.key \notin DOMAIN outbound_edges'
             /\ ret'.key \notin DOMAIN inbound_edges'
             /\ \A x \in Vertices :
                   /\ ~HasOutbound(outbound_edges', x, ret'.key)
                   /\ ~HasInbound(inbound_edges', ret'.key, x)]_vars

\* C27: is_adjacent(s, d) never raises: it returns True when the edge
\* s -> d exists and False in every other case, a d that is not a vertex
\* of the graph included.
C27_IsAdjacentTotal ==
    [][(IsGraph /\ ret'.op = "is_adjacent")
          => /\ ret'.raised = None
             /\ ret'.result = IF HasOutbound(outbound_edges, ret'.key, ret'.rkey)
                               THEN "True" ELSE "False"]_vars

\* ------------------------------------------------------------- ring splice
\* FibonacciHeapNode.__add__ on its own: two rings of 1..MaxRing nodes, each
\* built the way insert builds the root ring (one new node added to the
\* first at a time), and one a + b with a in the first ring and b in the
\* second (or b = None).
MaxRing == 4

\* Nodes first .. last joined into one ring, first + node for each new node.
RECURSIVE RingBuild(_, _, _)
RingBuild(nd, first, last) ==
    IF Len(nd) >= last THEN nd
    ELSE LET node == Len(nd) + 1
             nd0 == Append(nd, FibonacciHeapNode(node, 1, LoadValue(node)))
         IN RingBuild(IF node = first THEN nd0 ELSE NodeAdd(nd0, first, node),
                      first, last)

InitRing ==
    /\ impl = "FibonacciHeapNode"
    /\ \E m, n \in 1..MaxRing :
          fib_node = RingBuild(RingBuild(<<>>, 1, m), m + 1, m + n)
    /\ fib_min = Nil
    /\ fib_len = 0
    /\ fib_value_pointer = <<>>
    /\ fib_held = <<>>
    /\ vertices = {}
    /\ outbound_edges = <<>>
    /\ inbound_edges = <<>>
    /\ bin_node = <<>>
    /\ bin_head = Nil
    /\ bin_len = 0
    /\ bin_value_pointer = <<>>
    /\ _container = <<>>
    /\ _value_to_index = <<>>
    /\ ret = Call("__init__", 0, None, None, None, 0)
    /\ n_ins = 0
    /\ n_ext = 0
    /\ live = {}
    /\ sp_graph = <<>>
    /\ sp_source = 0
    /\ sp_distance = <<>>
    /\ sp_path = <<>>
    /\ rbt_node = <<>>
    /\ rbt_root = Nil
    /\ rbt_keys = {}

\* a + b: key is a, rkey is b.
RingAdd(a, b) ==
    /\ impl = "FibonacciHeapNode"
    /\ ret.op = "__init__"
    /\ a \in FibRing(fib_node, 1)
    /\ b \in ((1..Len(fib_node)) \ FibRing(fib_node, 1)) \cup {Nil}
    /\ fib_node' = NodeAdd(fib_node, a, b)
    /\ ret' = Call("__add__", a, None, None, None, b)
    /\ UNCHANGED <<impl, graph_vars, alg_vars, rbt_vars, pq_vars, bin_vars, fib_min, fib_len,
                   fib_value_pointer, fib_held, n_ins, n_ext, live>>

NextRing == \E a \in 1..MaxRing, b \in 0..(2 * MaxRing) : RingAdd(a, b)

SpecRing == InitRing /\ [][NextRing]_vars

\* C31: a + b on a node a of one ring and a node b of another, the rings
\* disjoint and of any sizes, leaves one ring that holds every node of both
\* exactly once, with x.right.left = x and x.left.right = x for every x.
C31_RingSplice ==
    [][(impl = "FibonacciHeapNode" /\ ret'.op = "__add__" /\ ret'.rkey # Nil)
          => /\ FibRing(fib_node', ret'.key) = 1..Len(fib_node)
             /\ \A x \in 1..Len(fib_node) :
                   /\ fib_node'[fib_node'[x].right].left = x
                   /\ fib_node'[fib_node'[x].left].right = x]_vars

\* ------------------------------------------------------------ node accounting
\* C32: in a FibonacciHeap, after any sequence of insert, extract_min and +,
\* the nodes reachable from _min over right and child links are len(heap)
\* many and their values are exactly the keys of _value_pointer.
C32_NodeAccounting ==
    IsFib =>
        /\ Cardinality(FibNodes) = fib_len
        /\ {fib_node[x].value : x \in FibNodes} = DOMAIN fib_value_pointer

\* --------------------------------------------------- PriorityQueue tracking
\* C33: in a PriorityQueue the keys of _value_to_index are exactly the
\* values stored in _container, and an insert of a value that is not stored
\* (one removed by extract_minimum included) raises no duplicate error.
C33_TrackedValues ==
    [][IsPQ =>
          /\ DOMAIN _value_to_index' = ContainerValues'
          /\ (ret'.op = "insert" /\ ret'.value \notin ContainerValues)
                => ret'.raised = None]_vars

\* ------------------------------------------------- BinomialHeap.decrease_key
\* C34: decrease_key on a well-formed BinomialHeap raises ValueError and
\* changes nothing when the value is not tracked or new_key is not below its
\* key; otherwise it returns, the entry with that value has key new_key,
\* every other value keeps its key, every node's key is at least its
\* parent's, and _value_pointer[v].value = v for every tracked v.
C34_BinomialDecreaseKey ==
    [][(IsBin /\ ret'.op = "decrease_key" /\ BinWellFormed) =>
          IF ret'.value \notin DOMAIN bin_value_pointer
          THEN ret'.raised = "ValueError" /\ UNCHANGED heap_vars
          ELSE IF ret'.key >= bin_node[bin_value_pointer[ret'.value]].key
          THEN ret'.raised = "ValueError" /\ UNCHANGED heap_vars
          ELSE /\ ret'.raised = None
               /\ DOMAIN bin_value_pointer' = DOMAIN bin_value_pointer
               /\ \A v \in DOMAIN bin_value_pointer :
                     /\ bin_node'[bin_value_pointer'[v]].value = v
                     /\ bin_node'[bin_value_pointer'[v]].key =
                           IF v = ret'.value THEN ret'.key
                           ELSE bin_node[bin_value_pointer[v]].key
               /\ BinHeapOrdered(bin_node')
               /\ BinWellFormed']_vars

\* decrease_key has returned on a well-formed heap after moving the value
\* to another node: node i held ValueOrder[i] at the start.
C34_Witness ==
    /\ IsBin
    /\ ret.op = "decrease_key"
    /\ ret.raised = None
    /\ BinWellFormed
    /\ ValueOrder[bin_value_pointer[ret.value]] # ret.value

\* ------------------------------------------- FibonacciHeap.extract_min ends
\* C35: on every FibonacciHeap state reachable through insert, extract_min
\* and +, a call to extract_min finishes: the ring walk of __len__ comes back
\* to its start and the loops of _consolidate end, and the call either
\* returns a value or raises.
C35_ExtractMinTerminates ==
    [][(IsFib /\ ret'.op = "extract_min") =>
          /\ ret'.raised # "<does not return>"
          /\ \/ ret'.raised = None /\ ret'.result \in FibUsed
             \/ ret'.raised \in {"IndexError", "AttributeError", "KeyError"}]_vars

\* extract_min has returned after _consolidate counted a ring of at least two
\* roots and linked one of them under another.
C35_Witness ==
    /\ IsFib
    /\ ret.op = "extract_min"
    /\ ret.raised = None
    /\ fib_min \in 1..Len(fib_node)
    /\ \E x \in 1..Len(fib_node) : fib_node[x].parent = fib_min

\* ================================================== src/Algorithms.py
\* The two shortest-path functions take an adjacency matrix: graph[i][j] is
\* the weight of the edge from vertex i to vertex j, float("inf") where
\* there is none.  Vertices are 0 .. vertex_count - 1 as in the code.
MaxVertexCount == 3
MaxWeight == 2
range(n) == 0..(n - 1)
Weights == ((0 - 1)..MaxWeight) \cup {Inf}

\* None where the code stores a vertex or None (the predecessor matrix P).
NoVertex == 0 - 1

\* a + b on Python numbers, Inf standing for float("inf").
Plus(a, b) == IF a = Inf \/ b = Inf THEN Inf ELSE a + b

\* The square matrices with a zero diagonal over the weights of the model.
Matrices(n) ==
    LET pairs == {p \in range(n) \X range(n) : p[1] # p[2]}
    IN {[i \in range(n) |-> [j \in range(n) |-> IF i = j THEN 0 ELSE w[<<i, j>>]]] :
          w \in [pairs -> Weights]}

\* _Create_AdjacencyMatrix on an adjacency matrix: the number of rows equals
\* len(graph[0]) and graph[0][0] is a number, so the argument itself comes
\* back.
_Create_AdjacencyMatrix(g) == g

\* ------------------------------------------------------ Dijkstra_Algorithm
_initialize(vertex_count, src) ==
    [d |-> [vertex \in range(vertex_count) |-> IF vertex = src THEN 0 ELSE Inf],
     p |-> [vertex \in range(vertex_count) |-> <<>>]]

\* The int vertex as a value stored in the queue.
VertexValue(vertex) == ToString(vertex)

\* PriorityQueue.insert on the queue pq: [pq, raised].
QInsert(pq, key, value) ==
    IF value \in DOMAIN pq.m
    THEN [pq |-> pq, raised |-> "ValueError"]
    ELSE LET c1 == Append(pq.c, PriorityQueueNode(key, value))
             index == Len(c1)
         IN [pq |-> _heapify_up(PQ(c1, Put(pq.m, value, index)), index),
             raised |-> None]

\* PriorityQueue.extract_minimum on the queue pq: [pq, raised, result]; the
\* result is min.value, the value that was inserted.
QExtractMinimum(pq) ==
    IF Len(pq.c) = 0
    THEN [pq |-> pq, raised |-> "IndexError", result |-> None]
    ELSE LET min == pq.c[1]
             c1 == [pq.c EXCEPT ![1] = pq.c[Len(pq.c)]]
             m1 == Put(pq.m, NodeObject(c1[1]), 0)
         IN [pq |-> _heapify_down(PQ(DropLast(c1), m1), 1),
             raised |-> None, result |-> min.value]

\* for vertex in range(vertex_count): Q.insert(distance[vertex], vertex)
RECURSIVE DijkstraFill(_, _, _, _)
DijkstraFill(Q, d, vertex, vertex_count) ==
    IF vertex = vertex_count THEN Q
    ELSE DijkstraFill(QInsert(Q, d[vertex], VertexValue(vertex)).pq, d,
                      vertex + 1, vertex_count)

\* Dijkstra_Algorithm(graph, source): [raised, distance, path].  The first
\* pass of `while not Q.is_empty()` evaluates Q.extract_minimum().value:
\* extract_minimum returns the stored value, the vertex itself, and an int
\* has no attribute value, so the statement raises AttributeError.  The rest
\* of the loop body and the statements after the loop run in no call.
Dijkstra_Algorithm(g, src) ==
    LET vertex_count == Cardinality(DOMAIN g)
        init == _initialize(vertex_count, src)
        AdjacencyMatrix == _Create_AdjacencyMatrix(g)
        Q == DijkstraFill(PQ(<<>>, <<>>), init.d, 0, vertex_count)
    IN IF Len(Q.c) = 0
       THEN [raised |-> None, distance |-> init.d,
             path |-> [init.p EXCEPT ![src] = <<src>>]]
       ELSE LET extracted == QExtractMinimum(Q)
            IN IF extracted.result \in {VertexValue(v) : v \in range(vertex_count)}
               THEN [raised |-> "AttributeError", distance |-> <<>>, path |-> <<>>]
               ELSE [raised |-> extracted.raised, distance |-> <<>>, path |-> <<>>]

DijkstraCall ==
    /\ impl = "Dijkstra_Algorithm"
    /\ ret.op = "__init__"
    /\ LET r == Dijkstra_Algorithm(sp_graph, sp_source)
       IN /\ ret' = Call("Dijkstra_Algorithm", 0, None, r.raised, None, 0)
          /\ sp_distance' = r.distance
          /\ sp_path' = r.path
    /\ UNCHANGED <<impl, heap_vars, graph_vars, rbt_vars, sp_graph, sp_source,
                   n_ins, n_ext, live>>

\* ------------------------------------------------ FloydWarshall_Algorithm
\* P as line 178 builds it: one matrix, P[i][j] the vertex i, or None where
\* i = j or there is no edge.  (D is a list holding the matrix: D = [Graph].)
FWInitialP(Graph, vertex_count) ==
    [i \in range(vertex_count) |-> [j \in range(vertex_count) |->
       IF i = j \/ Graph[i][j] = Inf THEN NoVertex ELSE i]]

\* element[j] where element is an entry of P: None and int are not
\* subscriptable.
Subscript(element, j) ==
    IF element = NoVertex \/ element \in Nat
    THEN [raised |-> "TypeError", result |-> NoVertex]
    ELSE [raised |-> None, result |-> element[j]]

\* The body of the innermost loop for one (k, i, j), D the matrix D[k]:
\* [d, p, raised].  P[k][k][j] and P[k][i][j] subscript an entry of P.
FWCell(D, P, k, i, j) ==
    LET new_distance == Plus(D[i][k], D[k][j])
        shorter == D[i][j] > new_distance
        p == Subscript(IF shorter THEN P[k][k] ELSE P[k][i], j)
    IN [d |-> IF shorter THEN new_distance ELSE D[i][j],
        p |-> p.result, raised |-> p.raised]

\* FloydWarshall_Algorithm(Graph): [raised, distance, path].  The first
\* pass of the three loops is k = i = j = 0; it raises, and nothing after
\* it runs in any call: no d is completed, nothing is appended to D or P,
\* and the path reconstruction is not reached.
FloydWarshall_Algorithm(G) ==
    LET vertex_count == Cardinality(DOMAIN G)
        Graph == _Create_AdjacencyMatrix(G)
        P == FWInitialP(Graph, vertex_count)
        first == FWCell(Graph, P, 0, 0, 0)
    IN [raised |-> first.raised, distance |-> <<>>, path |-> <<>>]

FloydWarshallCall ==
    /\ impl = "FloydWarshall_Algorithm"
    /\ ret.op = "__init__"
    /\ LET r == FloydWarshall_Algorithm(sp_graph)
       IN /\ ret' = Call("FloydWarshall_Algorithm", 0, None, r.raised, None, 0)
          /\ sp_distance' = r.distance
          /\ sp_path' = r.path
    /\ UNCHANGED <<impl, heap_vars, graph_vars, rbt_vars, sp_graph, sp_source,
                   n_ins, n_ext, live>>

NextAlgorithms == DijkstraCall \/ FloydWarshallCall

\* A client about to call one of the two functions on a matrix of 1 to
\* MaxVertexCount vertices.
InitAlgorithms ==
    /\ impl \in {"Dijkstra_Algorithm", "FloydWarshall_Algorithm"}
    /\ \E n \in 1..MaxVertexCount :
         /\ sp_graph \in Matrices(n)
         /\ sp_source \in IF impl = "Dijkstra_Algorithm" THEN range(n) ELSE {0}
    /\ sp_distance = <<>>
    /\ sp_path = <<>>
    /\ rbt_node = <<>>
    /\ rbt_root = Nil
    /\ rbt_keys = {}
    /\ _container = <<>>
    /\ _value_to_index = <<>>
    /\ bin_node = <<>>
    /\ bin_head = Nil
    /\ bin_len = 0
    /\ bin_value_pointer = <<>>
    /\ fib_node = <<>>
    /\ fib_min = Nil
    /\ fib_len = 0
    /\ fib_value_pointer = <<>>
    /\ fib_held = <<>>
    /\ vertices = {}
    /\ outbound_edges = <<>>
    /\ inbound_edges = <<>>
    /\ ret = Call("__init__", 0, None, None, None, 0)
    /\ n_ins = 0
    /\ n_ext = 0
    /\ live = {}

SpecAlgorithms == InitAlgorithms /\ [][NextAlgorithms]_vars

\* ---- claims about the shortest-path functions
IsDijkstra == impl = "Dijkstra_Algorithm"
IsFloydWarshall == impl = "FloydWarshall_Algorithm"

SetMin(S) == CHOOSE x \in S : \A y \in S : x <= y

\* The least weight of a walk from i to j of at most h edges.
RECURSIVE WalkWeight(_, _, _, _)
WalkWeight(g, i, j, h) ==
    IF h = 0 THEN (IF i = j THEN 0 ELSE Inf)
    ELSE SetMin({WalkWeight(g, i, j, h - 1)} \cup
                {Plus(WalkWeight(g, i, k, h - 1), g[k][j]) : k \in DOMAIN g})

\* The weight of a shortest path where no cycle is negative: a shortest
\* path repeats no vertex.
ShortestPathWeight(g, i, j) == WalkWeight(g, i, j, Cardinality(DOMAIN g) - 1)

NonNegativeWeights(g) == \A i, j \in DOMAIN g : g[i][j] >= 0
NoNegativeCycle(g) ==
    \A i \in DOMAIN g : WalkWeight(g, i, i, Cardinality(DOMAIN g)) >= 0

\* C36: Dijkstra_Algorithm on a graph with non-negative weights and at least
\* one vertex does not raise and returns the shortest-path weight from
\* source for every vertex.
C36_DijkstraShortestPaths ==
    [][(IsDijkstra /\ ret'.op = "Dijkstra_Algorithm" /\ NonNegativeWeights(sp_graph)) =>
          /\ ret'.raised = None
          /\ \A v \in DOMAIN sp_graph :
               sp_distance'[v] = ShortestPathWeight(sp_graph, sp_source, v)]_vars

\* C37: FloydWarshall_Algorithm on an adjacency matrix with zero diagonal and
\* no negative cycle returns D with D[i][j] the shortest-path weight from i
\* to j for all i, j, and for every reachable pair i # j the reconstruction
\* loop ends with a vertex sequence that starts at i and follows existing
\* edges.
C37_FloydWarshall ==
    [][(IsFloydWarshall /\ ret'.op = "FloydWarshall_Algorithm"
          /\ NoNegativeCycle(sp_graph)) =>
          /\ ret'.raised = None
          /\ \A i, j \in DOMAIN sp_graph :
                /\ sp_distance'[i][j] = ShortestPathWeight(sp_graph, i, j)
                /\ (i # j /\ ShortestPathWeight(sp_graph, i, j) < Inf) =>
                      LET pp == sp_path'[i][j]
                      IN /\ Len(pp) >= 1
                         /\ pp[1] = i
                         /\ \A x \in 1..(Len(pp) - 1) :
                               sp_graph[pp[x]][pp[x + 1]] < Inf]_vars

\* ========================================================== RedBlackTree
\* rbt_node holds the RedBlackTree_Node objects in the order they were
\* created; a node is the index of its record.  A node with key None is a
\* leaf sentinel; every node that has a key has two children.
MaxRBKey == 3
MaxRBInserts == 4
RBKeys == 0..MaxRBKey
RBValues == {None, "a"}
\* A tree that is only built holds up to MaxRBBuild keys.
MaxRBBuild == 8
\* The client deletes at most MaxRBDeletes keys the tree holds.
MaxRBDeletes == 2

\* None as a key.
NoKey == 0 - 1

\* RedBlackTree_Node.__init__
RedBlackTree_Node(parent) ==
    [black |-> TRUE, parent |-> parent, key |-> NoKey, value |-> None,
     left |-> Nil, right |-> Nil]

\* The tree a method works on, and the exception that ended the method.
Tree(nd, root) == [nd |-> nd, root |-> root, raised |-> None]
Fail(t, exc) == [t EXCEPT !.raised = exc]

\* Truth value of a key and of a stored value: None and 0 are false.
KeyTruthy(key) == key # NoKey /\ key # 0
ValueTruthy(value) == value # None

Opposite(side) == IF side = "left" THEN "right" ELSE "left"

\* The descent shared by insert and search.
RECURSIVE RBDescend(_, _, _)
RBDescend(nd, self, key) ==
    IF nd[self].key # NoKey /\ nd[self].key # key
    THEN RBDescend(nd, IF nd[self].key > key THEN nd[self].left ELSE nd[self].right,
                   key)
    ELSE self

\* _rotate_left is Rotate(t, self, "left"), _rotate_right the mirror image.
\* The six targets of the tuple assignment are assigned from left to right,
\* so a missing grandchild raises after the other five are written.
Rotate(t, self, side) ==
    LET nd == t.nd
        other == Opposite(side)
        parent == nd[self].parent
        child == nd[self][other]
        grandchild == nd[child][side]
        n1 == IF parent = Nil THEN nd
              ELSE IF self = nd[parent].left THEN [nd EXCEPT ![parent].left = child]
              ELSE [nd EXCEPT ![parent].right = child]
        n2 == [n1 EXCEPT ![child].parent = parent]
        n3 == [n2 EXCEPT ![child][side] = self]
        n4 == [n3 EXCEPT ![self].parent = child]
        n5 == [n4 EXCEPT ![self][other] = grandchild]
        root == IF parent = Nil THEN child ELSE t.root
    IN IF grandchild = Nil
       THEN Fail(Tree(n5, root), "AttributeError")
       ELSE Tree([n5 EXCEPT ![grandchild].parent = self], root)

_rotate_left(t, self) == Rotate(t, self, "left")
_rotate_right(t, self) == Rotate(t, self, "right")

\* _insert_balance that recolours but never rotates.
RECURSIVE _insert_balance_recolour(_, _)
_insert_balance_recolour(t, self) ==
    LET nd == t.nd
        parent == nd[self].parent
    IN IF parent # Nil /\ ~nd[parent].black /\ nd[parent].parent # Nil
       THEN LET grand == nd[parent].parent
            IN _insert_balance_recolour(
                 Tree([nd EXCEPT ![parent].black = TRUE, ![grand].black = FALSE],
                      t.root), grand)
       ELSE IF parent = Nil THEN Tree([nd EXCEPT ![self].black = TRUE], t.root)
       ELSE t

\* _insert_balance; side is the side of the grandparent the parent is on.
RECURSIVE _insert_balance(_, _)
_insert_balance(t, self) ==
    LET nd == t.nd
        parent == nd[self].parent
    IN IF t.raised # None THEN t
       ELSE IF parent # Nil /\ ~nd[parent].black
       THEN LET grand == nd[parent].parent IN
            IF grand = Nil THEN Fail(t, "AttributeError")
            ELSE LET side == IF parent = nd[grand].left THEN "left" ELSE "right"
                     other == Opposite(side)
                     pointer == nd[grand][other]
                 IN IF ~nd[pointer].black
                    THEN _insert_balance(
                           Tree([nd EXCEPT ![pointer].black = TRUE,
                                           ![parent].black = TRUE,
                                           ![grand].black = FALSE], t.root),
                           grand)
                    ELSE LET inner == self = nd[parent][other]
                             t1 == IF inner THEN Rotate(t, parent, side) ELSE t
                             self1 == IF inner THEN t1.nd[self][side] ELSE self
                             parent1 == t1.nd[self1].parent
                             grand1 == t1.nd[parent1].parent
                         IN IF t1.raised # None THEN t1
                            ELSE IF grand1 = Nil THEN Fail(t1, "AttributeError")
                            ELSE _insert_balance(
                                   Rotate(Tree([t1.nd EXCEPT ![grand1].black = FALSE,
                                                             ![parent1].black = TRUE],
                                               t1.root),
                                          grand1, other),
                                   self1)
       ELSE IF parent = Nil THEN Tree([nd EXCEPT ![self].black = TRUE], t.root)
       ELSE t

\* RedBlackTree_Node.insert of a key the tree does not hold.
RBTreeInsert(t, key, value) ==
    LET self == RBDescend(t.nd, t.root, key)
        left == Len(t.nd) + 1
        right == Len(t.nd) + 2
        n1 == [t.nd EXCEPT ![self].black = FALSE, ![self].key = key,
                           ![self].value = value,
                           ![self].left = left, ![self].right = right]
        n2 == Append(Append(n1, RedBlackTree_Node(self)), RedBlackTree_Node(self))
    IN _insert_balance(Tree(n2, t.root), self)

\* RedBlackTree_Node.search: the node, or Nil for None.
RBTreeSearch(t, key) ==
    LET self == RBDescend(t.nd, t.root, key)
    IN IF t.nd[self].key # NoKey THEN self ELSE Nil

RECURSIVE LeftMost(_, _)
LeftMost(nd, self) ==
    IF KeyTruthy(nd[nd[self].left].key) THEN LeftMost(nd, nd[self].left) ELSE self

RECURSIVE ClimbRight(_, _)
ClimbRight(nd, self) ==
    IF nd[self].parent # Nil /\ self = nd[nd[self].parent].right
    THEN ClimbRight(nd, nd[self].parent)
    ELSE self

\* _successor: with a right child the walk goes down the left children of
\* self itself; otherwise up while self is a right child.
_successor(nd, self) ==
    IF KeyTruthy(nd[nd[self].right].key) THEN LeftMost(nd, self)
    ELSE ClimbRight(nd, self)

\* _delete_balance; side is the side of its parent that self is on.
RECURSIVE _delete_balance(_, _)
_delete_balance(t, self) ==
    LET nd == t.nd
        parent == nd[self].parent
    IN IF t.raised # None THEN t
       ELSE IF parent # Nil /\ nd[self].black
       THEN LET side == IF self = nd[parent].left THEN "left" ELSE "right"
                other == Opposite(side)
                sibling0 == nd[parent][other]
                red == ~nd[sibling0].black
                t1 == IF red
                      THEN Rotate(Tree([nd EXCEPT ![sibling0].black = TRUE,
                                                  ![parent].black = FALSE], t.root),
                                  parent, side)
                      ELSE t
                sibling == t1.nd[parent][other]
            IN IF t1.raised # None THEN t1
               ELSE IF t1.nd[sibling].left = Nil THEN Fail(t1, "AttributeError")
               ELSE IF /\ t1.nd[t1.nd[sibling].left].black
                       /\ t1.nd[t1.nd[sibling].right].black
               THEN _delete_balance(
                      Tree([t1.nd EXCEPT ![sibling].black = FALSE], t1.root), parent)
               ELSE LET far == t1.nd[t1.nd[sibling][other]].black
                        t2 == IF far
                              THEN Rotate(
                                     Tree([t1.nd EXCEPT
                                             ![sibling].black = FALSE,
                                             ![t1.nd[sibling][side]].black = TRUE],
                                          t1.root),
                                     sibling, other)
                              ELSE t1
                        sibling2 == t2.nd[parent][other]
                    IN IF t2.raised # None THEN t2
                       ELSE LET n3 == [t2.nd EXCEPT ![sibling2].black = t2.nd[parent].black]
                                n4 == [n3 EXCEPT ![parent].black = TRUE]
                            IN IF n4[sibling2][other] = Nil
                               THEN Fail(Tree(n4, t2.root), "AttributeError")
                               ELSE LET n5 == [n4 EXCEPT ![n4[sibling2][other]].black = TRUE]
                                        t3 == Rotate(Tree(n5, t2.root), parent, side)
                                    IN _delete_balance(t3, t3.root)
       ELSE Tree([nd EXCEPT ![self].black = TRUE], t.root)

\* RedBlackTree_Node.delete
RBTreeDelete(t, key) ==
    LET nd == t.nd
        self == RBTreeSearch(t, key)
    IN IF self = Nil THEN t
       ELSE LET pointer == IF \/ ~ValueTruthy(nd[nd[self].left].value)
                              \/ ~ValueTruthy(nd[nd[self].right].value)
                           THEN self ELSE _successor(nd, self)
                child == IF ValueTruthy(nd[nd[pointer].left].value)
                         THEN nd[pointer].left ELSE nd[pointer].right
                parent == nd[pointer].parent
                n1 == [nd EXCEPT ![child].parent = parent]
                n2 == IF parent = Nil THEN n1
                      ELSE IF pointer = n1[parent].left
                      THEN [n1 EXCEPT ![parent].left = child]
                      ELSE [n1 EXCEPT ![parent].right = child]
                root == IF parent = Nil THEN child ELSE t.root
                n3 == IF pointer # self
                      THEN [n2 EXCEPT ![self].key = n2[pointer].key,
                                      ![self].value = n2[pointer].value]
                      ELSE n2
            IN IF n3[pointer].black
               THEN _delete_balance(Tree(n3, root), child)
               ELSE Tree(n3, root)

RBCall(op, key, value, raised, result) == Call(op, key, value, raised, result, 0)

\* tree.insert(key, value) for a key the tree does not hold (for a key it
\* holds the method asks the terminal whether to overwrite).  The client
\* builds the tree first, of at most limit keys: it inserts nothing once a
\* delete has found a key.
RBInsert(limit, key, value) ==
    /\ impl = "RedBlackTree"
    /\ n_ext = 0
    /\ key \notin rbt_keys
    /\ RBTreeSearch(Tree(rbt_node, rbt_root), key) = Nil
    /\ n_ins < limit
    /\ LET t == RBTreeInsert(Tree(rbt_node, rbt_root), key, value)
       IN /\ rbt_node' = t.nd
          /\ rbt_root' = t.root
          /\ ret' = RBCall("insert", key, value, t.raised, None)
    /\ rbt_keys' = rbt_keys \cup {key}
    /\ n_ins' = n_ins + 1
    /\ UNCHANGED <<impl, heap_vars, graph_vars, alg_vars, n_ext, live>>

\* tree.search(key): the result is the key of the node found, or None.
RBSearch(key) ==
    /\ impl = "RedBlackTree"
    /\ LET self == RBTreeSearch(Tree(rbt_node, rbt_root), key)
       IN ret' = RBCall("search", key, None, None,
                        IF self = Nil THEN None ELSE "RedBlackTree_Node")
    /\ UNCHANGED <<impl, heap_vars, graph_vars, alg_vars, rbt_vars, n_ins, n_ext, live>>

\* tree.delete(key); n_ext counts the calls that found the key.
RBDelete(key) ==
    /\ impl = "RedBlackTree"
    /\ n_ext < MaxRBDeletes
    /\ LET t == RBTreeDelete(Tree(rbt_node, rbt_root), key)
       IN /\ rbt_node' = t.nd
          /\ rbt_root' = t.root
          /\ ret' = RBCall("delete", key, None, t.raised, None)
    /\ rbt_keys' = rbt_keys \ {key}
    /\ n_ext' = IF RBTreeSearch(Tree(rbt_node, rbt_root), key) = Nil
                THEN n_ext ELSE n_ext + 1
    /\ UNCHANGED <<impl, heap_vars, graph_vars, alg_vars, n_ins, live>>

\* A client that only inserts, the value None as Dijkstra_Algorithm does.
NextRBInsert ==
    \E key \in 0..(MaxRBBuild - 1) : RBInsert(MaxRBBuild, key, None)

NextRBT ==
    \/ \E key \in RBKeys, value \in RBValues : RBInsert(MaxRBInserts, key, value)
    \/ \E key \in RBKeys : RBSearch(key)
    \/ \E key \in RBKeys : RBDelete(key)

\* RedBlackTree.__init__: root is one sentinel.
InitRBT ==
    /\ impl = "RedBlackTree"
    /\ rbt_node = <<RedBlackTree_Node(Nil)>>
    /\ rbt_root = 1
    /\ rbt_keys = {}
    /\ sp_graph = <<>>
    /\ sp_source = 0
    /\ sp_distance = <<>>
    /\ sp_path = <<>>
    /\ _container = <<>>
    /\ _value_to_index = <<>>
    /\ bin_node = <<>>
    /\ bin_head = Nil
    /\ bin_len = 0
    /\ bin_value_pointer = <<>>
    /\ fib_node = <<>>
    /\ fib_min = Nil
    /\ fib_len = 0
    /\ fib_value_pointer = <<>>
    /\ fib_held = <<>>
    /\ vertices = {}
    /\ outbound_edges = <<>>
    /\ inbound_edges = <<>>
    /\ ret = Call("__init__", 0, None, None, None, 0)
    /\ n_ins = 0
    /\ n_ext = 0
    /\ live = {}

\* Inserts only.
SpecRBInsert == InitRBT /\ [][NextRBInsert]_vars

\* Inserts, searches and deletes.
SpecRBT == InitRBT /\ [][NextRBT]_vars

\* ---- claims about RedBlackTree
IsRBT == impl = "RedBlackTree"

\* The keys of the subtree of x from left to right.
RECURSIVE RBInOrder(_, _)
RBInOrder(nd, x) ==
    IF nd[x].key = NoKey THEN <<>>
    ELSE RBInOrder(nd, nd[x].left) \o <<nd[x].key>> \o RBInOrder(nd, nd[x].right)

\* The nodes of the subtree of x that hold a key.
RECURSIVE RBKeyed(_, _)
RBKeyed(nd, x) ==
    IF nd[x].key = NoKey THEN {}
    ELSE {x} \cup RBKeyed(nd, nd[x].left) \cup RBKeyed(nd, nd[x].right)

\* The numbers of black nodes on the paths from x down to a leaf sentinel.
RECURSIVE RBBlackHeights(_, _)
RBBlackHeights(nd, x) ==
    LET own == IF nd[x].black THEN 1 ELSE 0
    IN IF nd[x].key = NoKey THEN {own}
       ELSE {h + own : h \in RBBlackHeights(nd, nd[x].left)
                               \cup RBBlackHeights(nd, nd[x].right)}

StrictlySorted(s) == \A i \in 1..(Len(s) - 1) : s[i] < s[i + 1]
SeqRange(s) == {s[i] : i \in 1..Len(s)}

RBColouring(nd, root) ==
    /\ nd[root].black
    /\ \A x \in RBKeyed(nd, root) :
         ~nd[x].black => nd[nd[x].left].black /\ nd[nd[x].right].black
    /\ Cardinality(RBBlackHeights(nd, root)) = 1

RBAllKeys == RBKeys \cup (0..(MaxRBBuild - 1))

\* C38: after any sequence of insert calls with pairwise distinct keys the
\* tree is a binary search tree over exactly the inserted keys, search(k)
\* returns a node iff k was inserted, the root is black, no red node has a
\* red child, and every path from the root to a leaf sentinel passes through
\* the same number of black nodes.
C38_RedBlackInsert ==
    (IsRBT /\ n_ext = 0) =>
       /\ ret.raised = None
       /\ StrictlySorted(RBInOrder(rbt_node, rbt_root))
       /\ SeqRange(RBInOrder(rbt_node, rbt_root)) = rbt_keys
       /\ \A k \in RBAllKeys :
            (RBTreeSearch(Tree(rbt_node, rbt_root), k) # Nil) <=> (k \in rbt_keys)
       /\ RBColouring(rbt_node, rbt_root)

\* Eight keys have been inserted, the first node is no longer the root (a
\* rotation at the top) and some node is red.
C38_Witness ==
    /\ IsRBT
    /\ ret.op = "insert"
    /\ n_ext = 0
    /\ Cardinality(rbt_keys) >= 8
    /\ rbt_root # 1
    /\ \E x \in RBKeyed(rbt_node, rbt_root) : ~rbt_node[x].black

\* C39: after delete(k) on a tree built by inserts of pairwise distinct
\* keys, search(k) returns None, every other inserted key is still found,
\* and the in-order key sequence is sorted with the red-black colouring
\* properties preserved (nodes with zero, one or two children, key 0 and the
\* stored value None included).
C39_RedBlackDelete ==
    [][(IsRBT /\ ret'.op = "delete" /\ n_ext = 0 /\ ret'.key \in rbt_keys
          /\ C38_RedBlackInsert) =>
          /\ ret'.raised = None
          /\ RBTreeSearch(Tree(rbt_node', rbt_root'), ret'.key) = Nil
          /\ \A k \in rbt_keys \ {ret'.key} :
               RBTreeSearch(Tree(rbt_node', rbt_root'), k) # Nil
          /\ StrictlySorted(RBInOrder(rbt_node', rbt_root'))
          /\ RBColouring(rbt_node', rbt_root')]_vars

====
